---------------------------- MODULE Spec2Model ----------------------------
(***************************************************************************)
(* EzStudy backend: the provider gateway with Gemini -> Groq fallback      *)
(* (callAIAPI), the keyword moderation helper (moderateContent), the       *)
(* uploaded-file text excerpts, and the per-session chat history of the    *)
(* session variant (/ask, /upload).                                        *)
(*                                                                         *)
(* JavaScript strings are TLA+ strings; Len, SubSeq and \o act on them as  *)
(* length, substring and concatenation.                                    *)
(***************************************************************************)
EXTENDS Integers, Sequences, FiniteSets, TLC

VARIABLES
    env,        \* process.env of the fallback variant: variable -> <<>> (unset) or <<value>>
    pc,         \* position of the fallback variant's request handler
    req,        \* the request being handled
    fileContext,\* fileContext built from the uploaded files
    disk,       \* names of the request's temporary files still in the uploads directory
    calls,      \* outbound network calls of the request, in order
    weatherSummary, \* weatherSummary of the /api/chat handler
    apiMessages,\* the message list handed to callAIAPI, <<>> before
    gerr,       \* the error thrown by the Gemini call, <<>> when none
    groqOut,    \* what the Groq fetch produced, <<>> when none
    res,        \* the HTTP response, <<>> until sent
    mtext,      \* moderateContent: the argument
    mres,       \* moderateContent: the returned value, <<>> before the call
    chatHistory,\* session variant: session key -> the turns stored under it
    slots,      \* session variant: the requests in flight, by connection
    sent,       \* session variant: the completion requests sent to the provider, in order
    uploads,    \* session variant: paths of the files in the uploads directory
    responses   \* session variant: the responses sent, in order

gwVars == <<env, pc, req, fileContext, disk, calls, weatherSummary, apiMessages,
           gerr, groqOut, res>>
mVars == <<mtext, mres>>
sVars == <<chatHistory, slots, sent, uploads, responses>>
vars == <<env, pc, req, fileContext, disk, calls, weatherSummary, apiMessages,
         gerr, groqOut, res, mtext, mres, chatHistory, slots, sent, uploads, responses>>

-----------------------------------------------------------------------------
(* Bounds of the model.                                                    *)

\* longest moderated text of SpecModerate, in words of ModWords
MaxWords == 2

\* requests of the session variant that can be in flight together
MaxInFlight == 2

\* requests the session variant answers in one behaviour
MaxRequests == 3

\* files uploaded with one /api/chat request of SpecFiles
MaxFiles == 1

\* /upload requests answered in one behaviour of SpecFiles
MaxUploads == 2

-----------------------------------------------------------------------------
(* JavaScript string primitives.                                           *)

Min(a, b) == IF a < b THEN a ELSE b
Max(a, b) == IF a > b THEN a ELSE b

\* the lower-case form of each upper-case letter
LowerOf ==
    [c \in {"A", "B", "C", "D", "E", "F", "G", "H", "I", "J", "K", "L", "M", "N", "O", "P",
            "Q", "R", "S", "T", "U", "V", "W", "X", "Y", "Z"} |->
        CASE c = "A" -> "a" [] c = "B" -> "b" [] c = "C" -> "c" [] c = "D" -> "d"
          [] c = "E" -> "e" [] c = "F" -> "f" [] c = "G" -> "g" [] c = "H" -> "h"
          [] c = "I" -> "i" [] c = "J" -> "j" [] c = "K" -> "k" [] c = "L" -> "l"
          [] c = "M" -> "m" [] c = "N" -> "n" [] c = "O" -> "o" [] c = "P" -> "p"
          [] c = "Q" -> "q" [] c = "R" -> "r" [] c = "S" -> "s" [] c = "T" -> "t"
          [] c = "U" -> "u" [] c = "V" -> "v" [] c = "W" -> "w" [] c = "X" -> "x"
          [] c = "Y" -> "y" [] c = "Z" -> "z"]

\* one character of String.prototype.toLowerCase
LowerChar(c) == IF c \in DOMAIN LowerOf THEN LowerOf[c] ELSE c

\* String.prototype.toLowerCase
RECURSIVE toLowerCase(_)
toLowerCase(s) ==
    IF Len(s) = 0 THEN s
    ELSE IF Len(s) = 1 THEN LowerChar(s)
    ELSE LET h == Len(s) \div 2
         IN toLowerCase(SubSeq(s, 1, h)) \o toLowerCase(SubSeq(s, h + 1, Len(s)))

\* String.prototype.includes
includes(s, k) ==
    \E i \in 1..(Len(s) - Len(k) + 1) : SubSeq(s, i, i + Len(k) - 1) = k

\* substring that takes `end` as the index of the last character kept
substring_EndInclusive(s, start, end) ==
    LET a == Max(0, Min(start, Len(s)))
        b == Max(0, Min(end + 1, Len(s)))
    IN SubSeq(s, Min(a, b) + 1, Max(a, b))

\* String.prototype.substring(start, end): both clamped to [0, length], swapped
\* when start > end
substring(s, start, end) ==
    LET a == Max(0, Min(start, Len(s)))
        b == Max(0, Min(end, Len(s)))
    IN SubSeq(s, Min(a, b) + 1, Max(a, b))

\* Array.prototype.some over a sequence of signals
RECURSIVE some(_, _)
some(list, s) ==
    IF list = <<>> THEN FALSE
    ELSE includes(s, Head(list)) \/ some(Tail(list), s)

\* a JavaScript value handed to a function expecting text
Str(s) == [type |-> "string", str |-> s]
NonStr(t) == [type |-> t, str |-> ""]

-----------------------------------------------------------------------------
(* moderateContent (fallback variant).                                     *)

adultKeywords ==
    <<"porn", "sex", "xxx", "nude", "naked", "escort", "adult", "bdsm", "fetish">>

illegalKeywords ==
    <<"bomb", "explosive", "hack bank", "kill", "murder", "drugs", "buy heroin",
      "build a bomb">>

Allowed == [allowed |-> TRUE]
Blocked(r) == [allowed |-> FALSE, reason |-> r]

\* moderateContent with the illegal list scanned before the adult list
moderateContent_IllegalFirst(text) ==
    IF text.type # "string" \/ text.str = "" THEN Allowed
    ELSE LET lowered == toLowerCase(text.str)
         IN IF some(illegalKeywords, lowered) THEN Blocked("illegal")
            ELSE IF some(adultKeywords, lowered) THEN Blocked("adult")
            ELSE Allowed

\* moderateContent matching the keywords against the text as typed
moderateContent_CaseSensitive(text) ==
    IF text.type # "string" \/ text.str = "" THEN Allowed
    ELSE IF some(adultKeywords, text.str) THEN Blocked("adult")
    ELSE IF some(illegalKeywords, text.str) THEN Blocked("illegal")
    ELSE Allowed

moderateContent(text) ==
    IF text.type # "string" \/ text.str = "" THEN Allowed
    ELSE LET lowered == toLowerCase(text.str)
         IN IF some(adultKeywords, lowered) THEN Blocked("adult")
            ELSE IF some(illegalKeywords, lowered) THEN Blocked("illegal")
            ELSE Allowed

-----------------------------------------------------------------------------
(* Values shared by the handlers.                                          *)

\* an optional value: <<>> is undefined, <<v>> is v
None == <<>>
Some(v) == <<v>>

\* JavaScript truthiness of an optional string
Truthy(o) == o # None /\ o[1] # ""

\* value ?? default: the default only for an absent value
OrDefault_AbsentOnly(o, d) == IF o = None THEN d ELSE o[1]

\* o || d
OrDefault(o, d) == IF Truthy(o) THEN o[1] ELSE d

\* `${o}` of an optional string
Interpolate(o) == IF o = None THEN "undefined" ELSE o[1]

Turn(role, content) == [role |-> role, content |-> content]

\* an Error: its message and, when the thrower set one, its enumerable status
Error(message, status) == [message |-> message, status |-> status]

\* res.status(status).json(...): the fields a body does not carry are ""
Response(status, error, reason, content, provider) ==
    [status |-> status, error |-> error, reason |-> reason, content |-> content,
     provider |-> provider]

\* a catch block that hides the error's message
CatchResponse_Generic(error) == Response(500, "Internal server error", "", "", "")

\* the catch block of the /api/chat, /api/quiz and /api/summarize handlers
CatchResponse(error) ==
    Response(500, IF error.message # "" THEN error.message ELSE "Internal server error",
             "", "", "")

-----------------------------------------------------------------------------
(* callAIAPI (fallback variant).                                           *)

PlaceholderGeminiKey == "your_google_gemini_api_key_here"

\* googleConfigured without the test for the placeholder value
googleConfigured_NoPlaceholder(e) == Truthy(e.GOOGLE_GEMINI_API_KEY)

\* if (googleApiKey && googleApiKey !== 'your_google_gemini_api_key_here')
googleConfigured(e) ==
    Truthy(e.GOOGLE_GEMINI_API_KEY) /\ e.GOOGLE_GEMINI_API_KEY[1] # PlaceholderGeminiKey

fallbackSignals ==
    <<"api_key", "api-key", "quota", "billing", "401", "403", "429", "invalid api",
      "invalid key", "permission">>

\* JSON.stringify(error) of an Error: only its own enumerable properties
JSONstringify(error) ==
    IF error.status = None THEN "{}" ELSE "{\"status\":" \o error.status[1] \o "}"

\* msg taken from the error's message alone, without the JSON.stringify alternative
msgOf_MessageOnly(error) == error.message

\* const msg = (error && (error.message || JSON.stringify(error))) || ''
msgOf(error) == IF error.message # "" THEN error.message ELSE JSONstringify(error)

\* shouldFallback that tests the message as thrown, without lower-casing it
shouldFallback_CaseSensitive(error) == some(fallbackSignals, msgOf(error))

\* shouldFallback that falls back on every Gemini failure
shouldFallback_Always(error) == TRUE

\* shouldFallback that reads the error's status code instead of its text
shouldFallback_StatusOnly(error) == error.status \in {Some("401"), Some("403"), Some("429")}

shouldFallback(error) == some(fallbackSignals, toLowerCase(msgOf(error)))

\* temperature without the case for 'precise'
temperature_NoPrecise(config) == IF config.tone = Some("creative") THEN 9 ELSE 7

\* temperature: config?.tone === 'creative' ? 0.9 : (config?.tone === 'precise' ? 0.3 : 0.7),
\* in tenths
temperature(config) ==
    IF config.tone = Some("creative") THEN 9
    ELSE IF config.tone = Some("precise") THEN 3
    ELSE 7

\* the role kept for a Gemini history entry
geminiRole(role) ==
    IF role = "system" THEN "system"
    ELSE IF role = "assistant" THEN "assistant"
    ELSE "user"

\* messages.slice(0, -1).map(...) followed by the content of the last message,
\* which chat.sendMessage sends as the user's
geminiMessages(messages) ==
    [i \in 1..Len(messages) |->
        IF i < Len(messages)
        THEN Turn(geminiRole(messages[i].role), messages[i].content)
        ELSE Turn("user", messages[i].content)]

Call(to, messages, temp) == [to |-> to, messages |-> messages, temperature |-> temp]

NoConfig == [personality |-> None, mode |-> None, tone |-> None, location |-> None]

\* the config callAIAPI receives: /api/chat passes its own, the others none
aiConfig(r) == IF r.endpoint = "chat" THEN r.config ELSE NoConfig

NoKeysError == Error("No AI API keys configured", None)

\* what a Groq fetch can produce: a completion, a non-ok response with or without
\* error.message, or a rejected fetch
GroqOk(content) ==
    [kind |-> "ok", code |-> 200, status |-> "200", message |-> None, content |-> content]
GroqHttp(code, status, message) ==
    [kind |-> "http", code |-> code, status |-> status, message |-> message, content |-> ""]
GroqThrow(message) ==
    [kind |-> "throw", code |-> 0, status |-> "", message |-> Some(message), content |-> ""]

\* the Error thrown for a Groq outcome that is no completion
groqError(out) ==
    IF out.kind = "throw" THEN Error(out.message[1], None)
    ELSE Error(OrDefault(out.message, "Groq API error: " \o out.status), None)

\* a result whose usage.provider is always 'google'
SuccessResponse_Google(content, provider) == Response(200, "", "", content, "google")

\* the handler's response to the value callAIAPI returned
SuccessResponse(content, provider) == Response(200, "", "", content, provider)

-----------------------------------------------------------------------------
(* POST /api/chat, /api/quiz, /api/summarize (fallback variant): the text  *)
(* they build.                                                             *)

\* String.prototype.startsWith
startsWith(s, p) == Len(s) >= Len(p) /\ SubSeq(s, 1, Len(p)) = p

\* characters of an uploaded file's text kept by /api/chat
ChatBudget == 3000

\* an uploaded file as multer hands it over; text is the text extraction yields,
\* None when extraction (readFileSync, pdfParse) throws
File(name, mimetype, text) ==
    [originalname |-> name, mimetype |-> mimetype, path |-> "uploads/" \o name,
     text |-> text]

\* fileEntry whose catch blocks swallow the failure without an annotation
fileEntry_NoPlaceholder(file) ==
    "\n[FILE: " \o file.originalname \o "]\n" \o
    ( IF startsWith(file.mimetype, "image/")
      THEN "[IMAGE UPLOADED - Analyze visual content, diagrams, charts, text in images]\n"
      ELSE IF file.mimetype = "application/pdf"
      THEN IF file.text # None
           THEN "[PDF CONTENT]:\n" \o substring(file.text[1], 0, ChatBudget) \o "\n"
           ELSE ""
      ELSE IF \/ startsWith(file.mimetype, "text/")
              \/ file.mimetype = "application/x-yaml"
              \/ file.mimetype = "application/javascript"
      THEN IF file.text # None
           THEN "[TEXT CONTENT]:\n" \o substring(file.text[1], 0, ChatBudget) \o "\n"
           ELSE ""
      ELSE "[" \o file.mimetype \o " FILE]\n" )

\* what one iteration of the loop over files appends to fileContext
fileEntry(file) ==
    "\n[FILE: " \o file.originalname \o "]\n" \o
    ( IF startsWith(file.mimetype, "image/")
      THEN "[IMAGE UPLOADED - Analyze visual content, diagrams, charts, text in images]\n"
      ELSE IF file.mimetype = "application/pdf"
      THEN IF file.text # None
           THEN "[PDF CONTENT]:\n" \o substring(file.text[1], 0, ChatBudget) \o "\n"
           ELSE "[PDF FILE - Unable to parse, but available for context]\n"
      ELSE IF \/ startsWith(file.mimetype, "text/")
              \/ file.mimetype = "application/x-yaml"
              \/ file.mimetype = "application/javascript"
      THEN IF file.text # None
           THEN "[TEXT CONTENT]:\n" \o substring(file.text[1], 0, ChatBudget) \o "\n"
           ELSE "[Text file - Unable to read]\n"
      ELSE "[" \o file.mimetype \o " FILE]\n" )

RECURSIVE fileEntries(_)
fileEntries(files) ==
    IF files = <<>> THEN "" ELSE fileEntry(Head(files)) \o fileEntries(Tail(files))

\* fileContext after the loop: "" without files
fileContextOf(files) ==
    IF Len(files) > 0
    THEN "\n\n--- Uploaded Files Context ---\n" \o fileEntries(files) \o "--- End of Files ---\n"
    ELSE ""

safetyInstructions ==
    "\n\nSafety and scope: Only answer study-related, educational, or academic questions. If a user asks for adult, sexual, illegal, violent, or political content, refuse and respond with: \"I can only help with study-related questions.\""

realTimeInstruction ==
    "\n\nReal-time behavior: If the request asks for the current time, date, location, or weather, use the values provided in the Device Context above (if present). If Device Context is not provided, use the server dynamic context included in the prompt. Do NOT claim you lack access to the current time or location when this contextual information is provided. If neither source is available, say: \"I don't have device or server time/location available right now.\""

\* the server clock and timezone as the handler formats them (one sample instant)
ClockContext ==
    "Current server date: 11/3/2026; time: 12:00:00 PM; year: 2026; month: November; timezone: UTC"

\* locationLabel: a location given as a string has neither label nor coordinates
locationLabel(e) == OrDefault(e.DEFAULT_LOCATION, "unspecified location")

dynamicContext(e, summary) ==
    "\n\nContext: " \o ClockContext \o "; location: " \o locationLabel(e) \o ". " \o summary

\* the place the weather is fetched for: config.location, else DEFAULT_LOCATION
weatherPlace(e, config) ==
    IF Truthy(config.location) THEN config.location
    ELSE IF Truthy(e.DEFAULT_LOCATION) THEN e.DEFAULT_LOCATION
    ELSE None

\* whether the handler fetches the weather
fetchesWeather(e, config) == Truthy(e.WEATHER_API_KEY) /\ weatherPlace(e, config) # None

\* weatherSummary for a weather response that is ok
weatherText(e, config, w) ==
    "Current weather in " \o weatherPlace(e, config)[1] \o ": " \o w.desc \o
    ". Temperature: " \o w.temp \o ". Feels like: " \o w.feels \o "."

modeLine(config, mode, line) == IF config.mode = Some(mode) THEN line ELSE ""

\* systemMessage of /api/chat. The requests carry no config.deviceContext, so
\* deviceContextBlock is "" and the location is config.location or DEFAULT_LOCATION.
systemMessage(e, config, fc, summary) ==
    Turn("system",
        "You are EzStudy AI, a " \o OrDefault(config.personality, "friendly") \o " "
        \o OrDefault(config.mode, "tutor") \o ".\n    Your tone should be "
        \o OrDefault(config.tone, "balanced") \o ".\n    "
        \o modeLine(config, "tutor",
              "Focus on explaining concepts clearly and asking guiding questions.")
        \o "\n    "
        \o modeLine(config, "summarizer",
              "Focus on condensing information into high-impact bullet points.")
        \o "\n    "
        \o modeLine(config, "examiner",
              "Focus on testing the user knowledge and providing critical feedback.")
        \o "\n    "
        \o ( IF fc # ""
             THEN "Files have been uploaded. Please carefully read and analyze their content when answering the user's questions. Use specific information from the files."
                  \o fc
             ELSE "" )
        \o "\n    Provide answers in clear markdown format."
        \o safetyInstructions \o dynamicContext(e, summary) \o realTimeInstruction)

\* systemPrompt of /api/chat in the Groq-only variant
systemPrompt(config, fc) ==
    "You are EzStudy AI, a " \o OrDefault(config.personality, "friendly") \o " "
    \o OrDefault(config.mode, "tutor") \o ". \nYour tone should be "
    \o OrDefault(config.tone, "balanced") \o ". \n"
    \o modeLine(config, "tutor",
          "Focus on explaining concepts clearly and asking guiding questions.")
    \o "\n"
    \o modeLine(config, "summarizer",
          "Focus on condensing information into high-impact bullet points.")
    \o "\n"
    \o modeLine(config, "examiner",
          "Focus on testing the user knowledge and providing critical feedback.")
    \o "\n"
    \o ( IF fc # ""
         THEN "Files have been uploaded. Please carefully read and analyze their content when answering the user's questions. Use specific information from the files."
              \o fc
         ELSE "" )
    \o "\nProvide answers in clear markdown format."

\* the messages of /api/chat in the Groq-only variant
groqChatMessages(r, fc) ==
    <<Turn("system", systemPrompt(r.config, fc))>> \o r.messages
        \o <<Turn("user", OrDefault(r.userMessage, ""))>>

\* apiMessages with the new user turn put before the supplied history
chatMessages_HistoryLast(e, r, fc, summary) ==
    <<systemMessage(e, r.config, fc, summary)>>
        \o <<Turn("user", OrDefault(r.userMessage, ""))>> \o r.messages

\* apiMessages = [systemMessage, ...messages, { role: 'user', content: userMessage }]
chatMessages(e, r, fc, summary) ==
    <<systemMessage(e, r.config, fc, summary)>> \o r.messages
        \o <<Turn("user", OrDefault(r.userMessage, ""))>>

\* apiMessages.map(m => m.content).join('\n')
RECURSIVE joinContents(_)
joinContents(messages) ==
    IF Len(messages) = 0 THEN ""
    ELSE IF Len(messages) = 1 THEN messages[1].content
    ELSE messages[1].content \o "\n" \o joinContents(Tail(messages))

\* the moderated text when only the userMessage is submitted
chatModerated_UserOnly(r, messages) == Str(OrDefault(r.userMessage, ""))

\* the text /api/chat moderates: userMessage || the joined contents
chatModerated(r, messages) ==
    IF Truthy(r.userMessage) THEN Str(r.userMessage[1]) ELSE Str(joinContents(messages))

\* the messages of /api/quiz
quizMessages(r) ==
    << Turn("system",
            "You are a quiz generator. Generate exactly 5 multiple choice questions in JSON format. Return ONLY valid JSON array with no markdown or explanation."),
       Turn("user",
            "Generate 5 " \o OrDefault(r.difficulty, "medium")
            \o " difficulty quiz questions about: " \o Interpolate(r.topic)
            \o ". Format as JSON array: [{\"question\": \"...\", \"options\": [\"A\", \"B\", \"C\", \"D\"], \"correct\": 0, \"explanation\": \"...\"}]") >>

\* the messages of /api/summarize
summarizeMessages(r) ==
    << Turn("system",
            "You are a study notes generator. Create " \o OrDefault(r.style, "bullet point")
            \o " style notes that are clear and easy to study from."),
       Turn("user",
            "Create study notes from the following content:\n\n" \o Interpolate(r.text)) >>

BlockedResponse(check) ==
    Response(400, "Request blocked: content not allowed", check.reason, "", "")

-----------------------------------------------------------------------------
(* The fallback variant's handlers as steps of one request. A request      *)
(* shares no state with another, so requests are taken one after another.  *)

ChatReq(bad, messages, userMessage, config, files) ==
    [variant |-> "fallback", endpoint |-> "chat", badJson |-> bad, messages |-> messages,
     userMessage |-> userMessage, config |-> config, files |-> files,
     topic |-> None, difficulty |-> None, text |-> None, style |-> None]

QuizReq(topic, difficulty) ==
    [variant |-> "fallback", endpoint |-> "quiz", badJson |-> FALSE, messages |-> <<>>, userMessage |-> None,
     config |-> NoConfig, files |-> <<>>, topic |-> topic, difficulty |-> difficulty,
     text |-> None, style |-> None]

SummarizeReq(text, style) ==
    [variant |-> "fallback", endpoint |-> "summarize", badJson |-> FALSE, messages |-> <<>>, userMessage |-> None,
     config |-> NoConfig, files |-> <<>>, topic |-> None, difficulty |-> None,
     text |-> text, style |-> style]

\* a /api/chat request to the Groq-only variant
GroqChatReq(bad, messages, userMessage, config, files) ==
    [ChatReq(bad, messages, userMessage, config, files) EXCEPT !.variant = "groqOnly"]

NoReq == SummarizeReq(None, None)

\* the environments a server can be started in
Envs ==
    [GOOGLE_GEMINI_API_KEY : {None, Some(""), Some(PlaceholderGeminiKey), Some("AIza-key")},
     GROQ_API_KEY : {None, Some(""), Some("gsk-key")},
     WEATHER_API_KEY : {None, Some("owm-key")},
     DEFAULT_LOCATION : {None, Some("London")}]

History == <<Turn("user", "What is a cell?"), Turn("assistant", "The unit of life.")>>

Configs ==
    { NoConfig,
      [personality |-> Some("strict"), mode |-> Some("examiner"), tone |-> Some("creative"),
       location |-> Some("Paris")] }

UserMessages == {None, Some("tell me about photosynthesis"), Some("where can I buy heroin")}

\* the requests of Spec: no uploaded files
Requests ==
    { ChatReq(bad, m, u, c, <<>>) :
        bad \in BOOLEAN, m \in {<<>>, History}, u \in UserMessages, c \in Configs }
    \cup { QuizReq(t, None) :
        t \in {None, Some("photosynthesis"), Some("how to build a BOMB")} }
    \cup { SummarizeReq(t, None) : t \in {None, Some("Cells divide by mitosis.")} }

\* what the Gemini SDK call can throw
GeminiErrors ==
    { Error("[GoogleGenerativeAI Error]: Error fetching from https://generativelanguage.googleapis.com: [429 Too Many Requests] Resource has been exhausted", Some("429")),
      Error("[GoogleGenerativeAI Error]: [400 Bad Request] API key not valid. [reason: API_KEY_INVALID]", Some("400")),
      Error("Permission denied for this project", Some("403")),
      Error("fetch failed", None),
      Error("fetch failed", Some("429")),
      Error("", Some("429")),
      Error("", None) }

GeminiText == "An answer from Gemini."

GroqOutcomes ==
    { GroqOk("An answer from Groq."),
      GroqHttp(429, "429", Some("Rate limit reached for model")),
      GroqHttp(500, "500", None),
      GroqThrow("fetch failed") }

WeatherOutcomes ==
    { [ok |-> TRUE, desc |-> "clear sky", temp |-> "21C", feels |-> "20C"],
      [ok |-> FALSE, desc |-> "", temp |-> "", feels |-> ""] }

InitGateway ==
    /\ pc = "idle"
    /\ req = NoReq
    /\ fileContext = ""
    /\ disk = {}
    /\ calls = <<>>
    /\ weatherSummary = ""
    /\ apiMessages = <<>>
    /\ gerr = None
    /\ groqOut = None
    /\ res = None

InitModerate == mtext = NonStr("undefined") /\ mres = None

\* res.status(...).json(...): the handler is finished
Respond(r) == res' = Some(r) /\ pc' = "done"

\* a request arrives; multer has written its files to the uploads directory
Receive(r) ==
    /\ pc = "idle"
    /\ req' = r
    /\ disk' = {r.files[i].path : i \in 1..Len(r.files)}
    /\ pc' = IF r.variant = "groqOnly" THEN "groq_parse"
             ELSE IF r.endpoint = "chat" THEN "parse"
             ELSE r.endpoint
    /\ UNCHANGED <<env, fileContext, calls, weatherSummary, apiMessages, gerr, groqOut, res>>
    /\ UNCHANGED <<mVars, sVars>>

\* /api/chat: JSON.parse of messages and config; a SyntaxError goes to the catch block
ChatParse ==
    /\ pc = "parse"
    /\ IF req.badJson
       THEN Respond(CatchResponse(Error("Unexpected token o in JSON at position 1", None)))
       ELSE pc' = "files" /\ UNCHANGED res
    /\ UNCHANGED <<env, req, fileContext, disk, calls, weatherSummary, apiMessages, gerr,
                   groqOut>>
    /\ UNCHANGED <<mVars, sVars>>

\* /api/chat of the Groq-only variant: JSON.parse, then the test of GROQ_API_KEY
GroqChatParse ==
    /\ pc = "groq_parse"
    /\ IF req.badJson
       THEN Respond(CatchResponse(Error("Unexpected token o in JSON at position 1", None)))
       ELSE IF ~Truthy(env.GROQ_API_KEY)
       THEN Respond(Response(500, "Groq API key not configured on server", "", "", ""))
       ELSE pc' = "files" /\ UNCHANGED res
    /\ UNCHANGED <<env, req, fileContext, disk, calls, weatherSummary, apiMessages, gerr,
                   groqOut>>
    /\ UNCHANGED <<mVars, sVars>>

\* /api/chat (both variants): the loop over the uploaded files
ChatFiles ==
    /\ pc = "files"
    /\ fileContext' = fileContextOf(req.files)
    /\ pc' = "cleanup"
    /\ UNCHANGED <<env, req, disk, calls, weatherSummary, apiMessages, gerr, groqOut, res>>
    /\ UNCHANGED <<mVars, sVars>>

\* /api/chat (both variants): files.forEach(file => fs.unlinkSync(file.path))
ChatCleanup ==
    /\ pc = "cleanup"
    /\ disk' = disk \ {req.files[i].path : i \in 1..Len(req.files)}
    /\ pc' = IF req.variant = "groqOnly" THEN "groq_call" ELSE "weather"
    /\ UNCHANGED <<env, req, fileContext, calls, weatherSummary, apiMessages, gerr, groqOut,
                   res>>
    /\ UNCHANGED <<mVars, sVars>>

\* /api/chat: the weather fetch, made when WEATHER_API_KEY and a place are known
ChatWeather ==
    /\ pc = "weather"
    /\ IF fetchesWeather(env, req.config)
       THEN calls' = Append(calls, Call("weather", <<>>, 0)) /\ pc' = "weather_wait"
       ELSE pc' = "moderate" /\ UNCHANGED calls
    /\ UNCHANGED <<env, req, fileContext, disk, weatherSummary, apiMessages, gerr, groqOut,
                   res>>
    /\ UNCHANGED <<mVars, sVars>>

\* /api/chat: the weather service answers, or the fetch fails (both leave the
\* summary empty unless the response is ok)
ChatWeatherReturn(w) ==
    /\ pc = "weather_wait"
    /\ weatherSummary' = IF w.ok THEN weatherText(env, req.config, w) ELSE ""
    /\ pc' = "moderate"
    /\ UNCHANGED <<env, req, fileContext, disk, calls, apiMessages, gerr, groqOut, res>>
    /\ UNCHANGED <<mVars, sVars>>

\* /api/chat: apiMessages are built and moderated
ChatModerate ==
    /\ pc = "moderate"
    /\ LET messages == chatMessages(env, req, fileContext, weatherSummary)
           userCheck == moderateContent(chatModerated(req, messages))
       IN /\ apiMessages' = messages
          /\ IF ~userCheck.allowed
             THEN Respond(BlockedResponse(userCheck))
             ELSE pc' = "callAI" /\ UNCHANGED res
    /\ UNCHANGED <<env, req, fileContext, disk, calls, weatherSummary, gerr, groqOut>>
    /\ UNCHANGED <<mVars, sVars>>

\* /api/quiz up to the call of callAIAPI
Quiz ==
    /\ pc = "quiz"
    /\ LET mod == moderateContent(Str(OrDefault(req.topic, "")))
       IN /\ apiMessages' = quizMessages(req)
          /\ IF ~mod.allowed
             THEN Respond(BlockedResponse(mod))
             ELSE pc' = "callAI" /\ UNCHANGED res
    /\ UNCHANGED <<env, req, fileContext, disk, calls, weatherSummary, gerr, groqOut>>
    /\ UNCHANGED <<mVars, sVars>>

\* /api/summarize up to the call of callAIAPI
Summarize ==
    /\ pc = "summarize"
    /\ apiMessages' = summarizeMessages(req)
    /\ pc' = "callAI"
    /\ UNCHANGED <<env, req, fileContext, disk, calls, weatherSummary, gerr, groqOut, res>>
    /\ UNCHANGED <<mVars, sVars>>

\* GroqStep without the test of groqApiKey: the fetch is made with any key
GroqStep_NoKeyCheck ==
    /\ calls' = Append(calls, Call("groq", apiMessages, temperature(aiConfig(req))))
    /\ pc' = "groq"
    /\ UNCHANGED res

\* callAIAPI from "Fallback to Groq API" on: throw without a key, else fetch
GroqStep ==
    IF ~Truthy(env.GROQ_API_KEY)
    THEN Respond(CatchResponse(NoKeysError)) /\ UNCHANGED calls
    ELSE /\ calls' = Append(calls, Call("groq", apiMessages, temperature(aiConfig(req))))
         /\ pc' = "groq"
         /\ UNCHANGED res

\* callAIAPI up to its first await
CallAIAPI ==
    /\ pc = "callAI"
    /\ IF googleConfigured(env)
       THEN /\ calls' = Append(calls, Call("google", geminiMessages(apiMessages),
                                           temperature(aiConfig(req))))
            /\ pc' = "gemini"
            /\ UNCHANGED res
       ELSE GroqStep
    /\ UNCHANGED <<env, req, fileContext, disk, weatherSummary, apiMessages, gerr, groqOut>>
    /\ UNCHANGED <<mVars, sVars>>

\* chat.sendMessage resolves: callAIAPI returns the Gemini text
GeminiReturn ==
    /\ pc = "gemini"
    /\ Respond(SuccessResponse(GeminiText, "google"))
    /\ UNCHANGED <<env, req, fileContext, disk, calls, weatherSummary, apiMessages, gerr,
                   groqOut>>
    /\ UNCHANGED <<mVars, sVars>>

\* the Gemini call throws: rethrow, or continue to Groq
GeminiThrow(error) ==
    /\ pc = "gemini"
    /\ gerr' = Some(error)
    /\ IF ~shouldFallback(error)
       THEN Respond(CatchResponse(error)) /\ UNCHANGED calls
       ELSE GroqStep
    /\ UNCHANGED <<env, req, fileContext, disk, weatherSummary, apiMessages, groqOut>>
    /\ UNCHANGED <<mVars, sVars>>

\* a Groq failure that starts callAIAPI over instead of throwing
GroqReturn_Retry(out) ==
    /\ pc = "groq"
    /\ groqOut' = Some(out)
    /\ IF out.kind = "ok"
       THEN Respond(SuccessResponse(out.content, "groq"))
       ELSE pc' = "callAI" /\ UNCHANGED res
    /\ UNCHANGED <<env, req, fileContext, disk, calls, weatherSummary, apiMessages, gerr>>
    /\ UNCHANGED <<mVars, sVars>>

\* the Groq fetch settles
GroqReturn(out) ==
    /\ pc = "groq"
    /\ groqOut' = Some(out)
    /\ IF out.kind = "ok"
       THEN Respond(SuccessResponse(out.content, "groq"))
       ELSE Respond(CatchResponse(groqError(out)))
    /\ UNCHANGED <<env, req, fileContext, disk, calls, weatherSummary, apiMessages, gerr>>
    /\ UNCHANGED <<mVars, sVars>>

\* /api/chat of the Groq-only variant: the prompt is built and the fetch made
GroqChatCall ==
    /\ pc = "groq_call"
    /\ apiMessages' = groqChatMessages(req, fileContext)
    /\ calls' = Append(calls, Call("groq", groqChatMessages(req, fileContext),
                                   temperature(req.config)))
    /\ pc' = "groq_fetch"
    /\ UNCHANGED <<env, req, fileContext, disk, weatherSummary, gerr, groqOut, res>>
    /\ UNCHANGED <<mVars, sVars>>

\* /api/chat of the Groq-only variant: the fetch settles
GroqChatReturn(out) ==
    /\ pc = "groq_fetch"
    /\ groqOut' = Some(out)
    /\ IF out.kind = "ok"
       THEN Respond(Response(200, "", "", out.content, ""))
       ELSE IF out.kind = "http"
       THEN Respond(Response(out.code, groqError(out).message, "", "", ""))
       ELSE Respond(CatchResponse(groqError(out)))
    /\ UNCHANGED <<env, req, fileContext, disk, calls, weatherSummary, apiMessages, gerr>>
    /\ UNCHANGED <<mVars, sVars>>

\* the response is sent; the server takes the next request
Finish ==
    /\ pc = "done"
    /\ pc' = "idle"
    /\ req' = NoReq
    /\ fileContext' = ""
    /\ disk' = {}
    /\ calls' = <<>>
    /\ weatherSummary' = ""
    /\ apiMessages' = <<>>
    /\ gerr' = None
    /\ groqOut' = None
    /\ res' = None
    /\ UNCHANGED env
    /\ UNCHANGED <<mVars, sVars>>

Handle ==
    \/ ChatParse \/ ChatFiles \/ ChatCleanup \/ ChatWeather
    \/ (\E w \in WeatherOutcomes : ChatWeatherReturn(w))
    \/ ChatModerate \/ Quiz \/ Summarize
    \/ CallAIAPI \/ GeminiReturn
    \/ (\E error \in GeminiErrors : GeminiThrow(error))
    \/ (\E out \in GroqOutcomes : GroqReturn(out))
    \/ Finish

-----------------------------------------------------------------------------
(* The session variant (/ask and /upload over chatHistory) and the /upload *)
(* of the variant without sessions.                                        *)

\* characters of an uploaded file's text kept by /upload
UploadBudget == 65000

\* the key of a /ask that defaults its sessionId as /upload does
askKey_Default(sessionId) == OrDefault(sessionId, "default")

\* the property key /ask reads and writes: chatHistory[sessionId]
askKey(sessionId) == IF sessionId = None THEN "undefined" ELSE sessionId[1]

\* the key of /upload: req.body.sessionId || "default"
uploadKey(sessionId) == OrDefault(sessionId, "default")

\* chatHistory[key] || []
historyOf(h, key) == IF key \in DOMAIN h THEN h[key] ELSE <<>>

\* push that replaces the stored list by the new turn alone
push_Overwrite(h, key, turn) ==
    [k \in DOMAIN h \cup {key} |-> IF k = key THEN <<turn>> ELSE h[k]]

\* push that puts the new turn in front (unshift)
push_Front(h, key, turn) ==
    [k \in DOMAIN h \cup {key} |-> IF k = key THEN <<turn>> \o historyOf(h, key) ELSE h[k]]

\* push into one list shared by all sessions: the turn is appended under every key
push_Shared(h, key, turn) ==
    [k \in DOMAIN h \cup {key} |-> Append(historyOf(h, k), turn)]

\* chatHistory[key] = chatHistory[key] || []; chatHistory[key].push(turn)
push(h, key, turn) ==
    [k \in DOMAIN h \cup {key} |-> IF k = key THEN Append(historyOf(h, key), turn) ELSE h[k]]

\* the messages a /ask that sends only its own query would send
askMessages_OwnQueryOnly(h, key) ==
    <<Turn("system", "You are a helpful AI assistant."), h[key][Len(h[key])]>>

\* messages of /ask: the system turn, then ...chatHistory[sessionId]
askMessages(h, key) == <<Turn("system", "You are a helpful AI assistant.")>> \o h[key]

\* truncation of /upload in the session variant
truncate(fileContent) == substring(fileContent, 0, UploadBudget)

\* truncation of /upload in the variant without sessions
truncateIfLonger(fileContent) ==
    IF Len(fileContent) > UploadBudget THEN substring(fileContent, 0, UploadBudget)
    ELSE fileContent

truncatedContent(variant, fileContent) ==
    IF variant = "session" THEN truncate(fileContent) ELSE truncateIfLonger(fileContent)

\* messages of /upload
uploadMessages(variant, truncated) ==
    IF variant = "session"
    THEN << Turn("system", "You are an AI that summarizes documents."),
            Turn("user", "Summarize this document:\n\n" \o truncated) >>
    ELSE << Turn("user", "Summarize this document in detail:\n\n" \o truncated) >>

\* the turn /upload stores
fileTurn(name, truncated) ==
    Turn("system", "User uploaded a file: " \o name \o ". Content:\n\n" \o truncated)

NoFile == File("", "", None)

IdleSlot ==
    [pc |-> "idle", kind |-> "", variant |-> "", key |-> "", query |-> "",
     file |-> NoFile, truncated |-> ""]

\* a response of the session variant, with the request it answers and the
\* position of the handler that sent it
Answer(slot, status, text) ==
    [kind |-> slot.kind, variant |-> slot.variant, key |-> slot.key, query |-> slot.query,
     file |-> slot.file, truncated |-> slot.truncated, at |-> slot.pc,
     status |-> status, text |-> text, details |-> ""]

\* what the completion call can produce: a completion with content, one without,
\* or a thrown error
Completions == {Some("A completion."), Some(""), None}

\* response.choices[0]?.message?.content || fallback
contentOr(completion, fallback) == OrDefault(completion, fallback)

InitSession ==
    /\ chatHistory = <<>>
    /\ slots = [i \in 1..MaxInFlight |-> IdleSlot]
    /\ sent = <<>>
    /\ uploads = {}
    /\ responses = <<>>

\* a request is answered: its connection is free again
Reply(i, status, text) ==
    /\ responses' = Append(responses, Answer(slots[i], status, text))
    /\ slots' = [slots EXCEPT ![i] = IdleSlot]

\* the catch block of /upload: 500 with the error's message as details
ReplyFailed(i, details) ==
    /\ responses' = Append(responses,
            [Answer(slots[i], 500, "Failed to process file") EXCEPT !.details = details])
    /\ slots' = [slots EXCEPT ![i] = IdleSlot]

\* the messages of the errors /upload catches: a failed extraction, a failed
\* completion call, fs.unlinkSync of a file that is no longer there
ExtractionMessage == "Invalid PDF structure"
CompletionMessage == "Connection error."
unlinkMessage(path) == "ENOENT: no such file or directory, unlink '" \o path \o "'"

\* /ask that creates the session before it validates the query
Ask_SessionFirst(i, query, sessionId) ==
    /\ slots[i].pc = "idle"
    /\ Len(responses) + Cardinality({j \in DOMAIN slots : slots[j].pc # "idle"}) < MaxRequests
    /\ IF ~Truthy(query)
       THEN /\ responses' = Append(responses,
                   Answer([IdleSlot EXCEPT !.kind = "ask", !.variant = "session",
                                           !.key = askKey(sessionId)],
                          400, "Query is required"))
            /\ chatHistory' =
                 [k \in DOMAIN chatHistory \cup {askKey(sessionId)} |->
                    historyOf(chatHistory, k)]
            /\ UNCHANGED <<slots, sent>>
       ELSE LET key == askKey(sessionId)
                h == push(chatHistory, key, Turn("user", query[1]))
            IN /\ chatHistory' = h
               /\ sent' = Append(sent, [slot |-> i, messages |-> askMessages(h, key)])
               /\ slots' = [slots EXCEPT ![i] =
                               [IdleSlot EXCEPT !.pc = "await", !.kind = "ask",
                                                !.variant = "session", !.key = key,
                                                !.query = query[1]]]
               /\ UNCHANGED responses
    /\ UNCHANGED uploads
    /\ UNCHANGED <<env, gwVars, mVars>>

\* POST /ask up to the await of the completion call
Ask(i, query, sessionId) ==
    /\ slots[i].pc = "idle"
    /\ Len(responses) + Cardinality({j \in DOMAIN slots : slots[j].pc # "idle"}) < MaxRequests
    /\ IF ~Truthy(query)
       THEN /\ responses' = Append(responses,
                   Answer([IdleSlot EXCEPT !.kind = "ask", !.variant = "session",
                                           !.key = askKey(sessionId)],
                          400, "Query is required"))
            /\ UNCHANGED <<chatHistory, slots, sent>>
       ELSE LET key == askKey(sessionId)
                h == push(chatHistory, key, Turn("user", query[1]))
            IN /\ chatHistory' = h
               /\ sent' = Append(sent, [slot |-> i, messages |-> askMessages(h, key)])
               /\ slots' = [slots EXCEPT ![i] =
                               [IdleSlot EXCEPT !.pc = "await", !.kind = "ask",
                                                !.variant = "session", !.key = key,
                                                !.query = query[1]]]
               /\ UNCHANGED responses
    /\ UNCHANGED uploads
    /\ UNCHANGED <<env, gwVars, mVars>>

\* /ask that writes back the history it read when the request arrived, with the
\* assistant turn added (a read-modify-write across the await)
AskReturn_StaleSnapshot(i, completion) ==
    /\ slots[i].pc = "await" /\ slots[i].kind = "ask"
    /\ IF completion = None
       THEN /\ Reply(i, 500, "Failed to fetch response from Groq AI")
            /\ UNCHANGED chatHistory
       ELSE LET responseContent == contentOr(completion, "No response")
                mine == CHOOSE n \in DOMAIN sent :
                            sent[n].slot = i /\ \A m \in DOMAIN sent : m > n => sent[m].slot # i
                snapshot == Tail(sent[mine].messages)
            IN /\ chatHistory' =
                    [chatHistory EXCEPT ![slots[i].key] =
                        Append(snapshot, Turn("assistant", responseContent))]
               /\ Reply(i, 200, responseContent)
    /\ UNCHANGED <<sent, uploads>>
    /\ UNCHANGED <<env, gwVars, mVars>>

\* /ask whose catch block takes the last turn off the session history again
AskReturn_Rollback(i, completion) ==
    /\ slots[i].pc = "await" /\ slots[i].kind = "ask"
    /\ IF completion = None
       THEN /\ Reply(i, 500, "Failed to fetch response from Groq AI")
            /\ chatHistory' =
                 [chatHistory EXCEPT ![slots[i].key] =
                     SubSeq(chatHistory[slots[i].key], 1, Len(chatHistory[slots[i].key]) - 1)]
       ELSE LET responseContent == contentOr(completion, "No response")
            IN /\ chatHistory' = push(chatHistory, slots[i].key,
                                      Turn("assistant", responseContent))
               /\ Reply(i, 200, responseContent)
    /\ UNCHANGED <<sent, uploads>>
    /\ UNCHANGED <<env, gwVars, mVars>>

\* POST /ask: the completion call settles
AskReturn(i, completion) ==
    /\ slots[i].pc = "await" /\ slots[i].kind = "ask"
    /\ IF completion = None
       THEN /\ Reply(i, 500, "Failed to fetch response from Groq AI")
            /\ UNCHANGED chatHistory
       ELSE LET responseContent == contentOr(completion, "No response")
            IN /\ chatHistory' = push(chatHistory, slots[i].key,
                                      Turn("assistant", responseContent))
               /\ Reply(i, 200, responseContent)
    /\ UNCHANGED <<sent, uploads>>
    /\ UNCHANGED <<env, gwVars, mVars>>

\* POST /upload up to the await of readFileContent; multer has stored the file
Upload(i, variant, file, sessionId) ==
    /\ slots[i].pc = "idle"
    /\ Len(responses) + Cardinality({j \in DOMAIN slots : slots[j].pc # "idle"}) < MaxRequests
    /\ IF file = None
       THEN /\ responses' = Append(responses,
                   Answer([IdleSlot EXCEPT !.kind = "upload", !.variant = variant],
                          400, "No file uploaded"))
            /\ UNCHANGED <<slots, uploads>>
       ELSE /\ uploads' = uploads \cup {file[1].path}
            /\ slots' = [slots EXCEPT ![i] =
                            [IdleSlot EXCEPT !.pc = "read", !.kind = "upload",
                                             !.variant = variant,
                                             !.key = IF variant = "session"
                                                     THEN uploadKey(sessionId) ELSE "",
                                             !.file = file[1]]]
            /\ UNCHANGED responses
    /\ UNCHANGED <<chatHistory, sent>>
    /\ UNCHANGED <<env, gwVars, mVars>>

\* /upload that stores the file turn as soon as the text is read, before the
\* completion call
UploadRead_StoreFirst(i) ==
    /\ slots[i].pc = "read"
    /\ IF slots[i].file.text = None
       THEN /\ ReplyFailed(i, ExtractionMessage)
            /\ UNCHANGED <<sent, chatHistory>>
       ELSE LET truncated == truncatedContent(slots[i].variant, slots[i].file.text[1])
            IN /\ sent' = Append(sent, [slot |-> i,
                                        messages |-> uploadMessages(slots[i].variant, truncated)])
               /\ slots' = [slots EXCEPT ![i].pc = "await", ![i].truncated = truncated]
               /\ chatHistory' = push(chatHistory, slots[i].key,
                                      fileTurn(slots[i].file.originalname, truncated))
               /\ UNCHANGED responses
    /\ UNCHANGED uploads
    /\ UNCHANGED <<env, gwVars, mVars>>

\* POST /upload: readFileContent settles; on text, the completion call is made
UploadRead(i) ==
    /\ slots[i].pc = "read"
    /\ IF slots[i].file.text = None
       THEN /\ ReplyFailed(i, ExtractionMessage)
            /\ UNCHANGED sent
       ELSE LET truncated == truncatedContent(slots[i].variant, slots[i].file.text[1])
            IN /\ sent' = Append(sent, [slot |-> i,
                                        messages |-> uploadMessages(slots[i].variant, truncated)])
               /\ slots' = [slots EXCEPT ![i].pc = "await", ![i].truncated = truncated]
               /\ UNCHANGED responses
    /\ UNCHANGED <<chatHistory, uploads>>
    /\ UNCHANGED <<env, gwVars, mVars>>

\* POST /upload: the completion call settles. fs.unlinkSync throws when another
\* request that stored a file of the same name has deleted it already.
UploadReturn(i, completion) ==
    /\ slots[i].pc = "await" /\ slots[i].kind = "upload"
    /\ IF completion = None
       THEN /\ ReplyFailed(i, CompletionMessage)
            /\ UNCHANGED <<chatHistory, uploads>>
       ELSE /\ chatHistory' =
                 IF slots[i].variant = "session"
                 THEN push(chatHistory, slots[i].key,
                           fileTurn(slots[i].file.originalname, slots[i].truncated))
                 ELSE chatHistory
            /\ IF slots[i].file.path \in uploads
               THEN /\ uploads' = uploads \ {slots[i].file.path}
                    /\ Reply(i, 200, contentOr(completion, "No summary available"))
               ELSE /\ UNCHANGED uploads
                    /\ ReplyFailed(i, unlinkMessage(slots[i].file.path))
    /\ UNCHANGED sent
    /\ UNCHANGED <<env, gwVars, mVars>>

-----------------------------------------------------------------------------
(* Specifications.                                                         *)

\* the environment of the specifications that are not about the gateway
AnyEnv ==
    [GOOGLE_GEMINI_API_KEY |-> Some("AIza-key"), GROQ_API_KEY |-> Some("gsk-key"),
     WEATHER_API_KEY |-> None, DEFAULT_LOCATION |-> None]

\* the fallback variant: /api/chat, /api/quiz, /api/summarize over callAIAPI
Init == env \in Envs /\ InitGateway /\ InitModerate /\ InitSession

Next == (\E r \in Requests : Receive(r)) \/ Handle

Spec == Init /\ [][Next]_vars

SessionIds == {None, Some("A")}

Queries == {None, Some(""), Some("What is a cell?"), Some("And a tissue?")}

SessionFiles ==
    { None,
      Some(File("notes.txt", "text/plain", Some("Cells divide by mitosis."))),
      Some(File("scan.pdf", "application/pdf", None)) }

\* the session variant, its requests on the connections `conns`
SessionNext(conns) ==
    \E i \in conns :
        \/ \E q \in Queries, sid \in SessionIds : Ask(i, q, sid)
        \/ \E c \in Completions : AskReturn(i, c)
        \/ \E f \in SessionFiles, sid \in SessionIds : Upload(i, "session", f, sid)
        \/ UploadRead(i)
        \/ \E c \in Completions : UploadReturn(i, c)

InitSessionSpec == env = AnyEnv /\ InitGateway /\ InitModerate /\ InitSession

\* requests one at a time
NextSequential == SessionNext({1})

SpecSequential == InitSessionSpec /\ [][NextSequential]_vars

\* requests in flight together
NextSession == SessionNext(1..MaxInFlight)

SpecSession == InitSessionSpec /\ [][NextSession]_vars

\* the handlers that store uploaded files, with the outcomes that end a request
\* early: malformed JSON, a missing GROQ_API_KEY, a failed extraction, a failed
\* provider
CleanupEnvs == {AnyEnv, [AnyEnv EXCEPT !.GROQ_API_KEY = None]}

CleanupFileLists ==
    { <<File("notes.txt", "text/plain", Some("Cells divide by mitosis."))>>,
      <<File("scan.pdf", "application/pdf", None)>>,
      <<File("notes.txt", "text/plain", Some("Cells divide by mitosis.")),
        File("figure.png", "image/png", None)>> }

CleanupRequests ==
    { ChatReq(bad, <<>>, Some("Summarise the attached file"), NoConfig, fs) :
        bad \in BOOLEAN, fs \in CleanupFileLists }
    \cup { GroqChatReq(bad, <<>>, Some("Summarise the attached file"), NoConfig, fs) :
        bad \in BOOLEAN, fs \in CleanupFileLists }

InitCleanup == env \in CleanupEnvs /\ InitGateway /\ InitModerate /\ InitSession

NextCleanup ==
    \/ \E r \in CleanupRequests : responses = <<>> /\ slots[1].pc = "idle" /\ Receive(r)
    \/ ChatParse \/ GroqChatParse \/ ChatFiles \/ ChatCleanup \/ ChatWeather
    \/ ChatModerate \/ CallAIAPI \/ GeminiReturn
    \/ (\E error \in GeminiErrors : GeminiThrow(error))
    \/ (\E out \in GroqOutcomes : GroqReturn(out))
    \/ GroqChatCall
    \/ (\E out \in GroqOutcomes : GroqChatReturn(out))
    \/ Finish
    \/ \E variant \in {"session", "sessionless"}, f \in SessionFiles \ {None} :
            pc = "idle" /\ Len(responses) < MaxUploads /\ Upload(1, variant, f, Some("A"))
    \/ UploadRead(1)
    \/ \E c \in Completions : UploadReturn(1, c)

SpecCleanup == InitCleanup /\ [][NextCleanup]_vars

\* the configs of SpecConfig: each field absent, empty, a member of its
\* enumeration, or a value outside it. A config that is null or absent reads as
\* NoConfig: config?.field is undefined for every field.
ConfigSpace ==
    [personality : {None, Some(""), Some("strict")},
     mode : {None, Some("tutor"), Some("summarizer"), Some("examiner"), Some("pirate")},
     tone : {None, Some(""), Some("creative"), Some("precise"), Some("balanced"),
             Some("CREATIVE"), Some("sarcastic")},
     location : {None}]

ConfigRequests ==
    { ChatReq(FALSE, <<>>, Some("tell me about photosynthesis"), c, <<>>) : c \in ConfigSpace }
    \cup { GroqChatReq(FALSE, <<>>, Some("tell me about photosynthesis"), c, <<>>) :
             c \in ConfigSpace }

\* /api/chat of both Groq variants, over the configs
NextConfig ==
    \/ \E r \in ConfigRequests : Receive(r)
    \/ ChatParse \/ GroqChatParse \/ ChatFiles \/ ChatCleanup \/ ChatWeather
    \/ ChatModerate \/ CallAIAPI \/ GeminiReturn
    \/ (\E error \in GeminiErrors : GeminiThrow(error))
    \/ (\E out \in GroqOutcomes : GroqReturn(out))
    \/ GroqChatCall
    \/ (\E out \in GroqOutcomes : GroqChatReturn(out))
    \/ Finish

SpecConfig == InitSessionSpec /\ [][NextConfig]_vars

\* the two chat routes that keep a conversation: /ask of the session variant over
\* chatHistory, and /api/chat of the fallback variant over the history the caller
\* supplies, with Gemini configured or not. The servers share nothing: a run is one
\* request to /api/chat, or the requests of the session variant.
MessagesEnvs == {AnyEnv, [AnyEnv EXCEPT !.GOOGLE_GEMINI_API_KEY = None]}

MessagesRequests ==
    { ChatReq(FALSE, m, u, NoConfig, <<>>) :
        m \in {<<>>, History}, u \in {None, Some("tell me about photosynthesis")} }

InitMessages == env \in MessagesEnvs /\ InitGateway /\ InitModerate /\ InitSession

NextMessages ==
    \/ pc = "idle" /\ SessionNext(1..MaxInFlight)
    \/ \E r \in MessagesRequests :
          /\ responses = <<>> /\ chatHistory = <<>>
          /\ \A i \in DOMAIN slots : slots[i].pc = "idle"
          /\ Receive(r)
    \/ ChatParse \/ ChatFiles \/ ChatCleanup \/ ChatWeather \/ ChatModerate
    \/ CallAIAPI \/ GeminiReturn
    \/ (\E error \in GeminiErrors : GeminiThrow(error))
    \/ (\E out \in GroqOutcomes : GroqReturn(out))

SpecMessages == InitMessages /\ [][NextMessages]_vars

\* /api/chat of the fallback variant over what moderation can meet: a userMessage
\* absent, empty, clean or with a keyword; a history or none; no file, a clean file
\* or a file whose text carries a keyword; messages and config that parse or not
ModeratedUserMessages ==
    {None, Some(""), Some("Summarise the attached file"), Some("where can I buy heroin")}

ModeratedFileLists ==
    { <<>>,
      <<File("notes.txt", "text/plain", Some("Cells divide by mitosis."))>>,
      <<File("recipe.txt", "text/plain", Some("How to build a bomb at home."))>> }

ModeratedRequests ==
    { ChatReq(bad, m, u, c, fs) :
        bad \in BOOLEAN, m \in {<<>>, History}, u \in ModeratedUserMessages, c \in Configs,
        fs \in ModeratedFileLists }

NextModerated ==
    \/ \E r \in ModeratedRequests : Receive(r)
    \/ ChatParse \/ ChatFiles \/ ChatCleanup \/ ChatWeather \/ ChatModerate
    \/ CallAIAPI \/ GeminiReturn
    \/ (\E error \in GeminiErrors : GeminiThrow(error))
    \/ (\E out \in GroqOutcomes : GroqReturn(out))
    \/ Finish

SpecModerated == InitMessages /\ [][NextModerated]_vars

\* the session variant with two sessions
IsolationIds == {Some("A"), Some("B")}

IsolationQueries == {Some("What is a cell?"), Some("And a tissue?")}

IsolationFiles == {Some(File("notes.txt", "text/plain", Some("Cells divide by mitosis.")))}

NextIsolation ==
    \E i \in 1..MaxInFlight :
        \/ \E q \in IsolationQueries, sid \in IsolationIds : Ask(i, q, sid)
        \/ \E c \in Completions : AskReturn(i, c)
        \/ \E f \in IsolationFiles, sid \in IsolationIds : Upload(i, "session", f, sid)
        \/ UploadRead(i)
        \/ \E c \in Completions : UploadReturn(i, c)

SpecIsolation == InitSessionSpec /\ [][NextIsolation]_vars

\* a text of n characters
RECURSIVE Repeat(_, _)
Repeat(s, n) ==
    IF n = 0 THEN ""
    ELSE IF n % 2 = 0 THEN LET h == Repeat(s, n \div 2) IN h \o h
    ELSE s \o Repeat(s, n - 1)

SampleText(n) == SubSeq(Repeat("lorem ipsu", n \div 10 + 1), 1, n)

\* the files of a /api/chat request of SpecFiles: texts shorter than, as long as and
\* longer than the budget, extractions that fail, files that are not read
ChatFileSet ==
    { File("long" , "application/pdf", Some(SampleText(n))) :
        n \in {ChatBudget - 1, ChatBudget, ChatBudget + 1} }
    \cup { File("notes.txt", "text/plain", Some("Cells divide by mitosis.")),
           File("scan.pdf", "application/pdf", None),
           File("locked.txt", "text/plain", None),
           File("figure.png", "image/png", None),
           File("clip.mp4", "video/mp4", None) }

RECURSIVE FileLists(_)
FileLists(n) ==
    IF n = 0 THEN {<<>>}
    ELSE LET shorter == FileLists(n - 1)
         IN shorter \cup {Append(fs, f) : fs \in shorter, f \in ChatFileSet}

FilesRequests ==
    { ChatReq(FALSE, <<>>, Some("Summarise the attached file"), NoConfig, fs) :
        fs \in FileLists(MaxFiles) }
    \cup { GroqChatReq(FALSE, <<>>, Some("Summarise the attached file"), NoConfig, fs) :
        fs \in FileLists(MaxFiles) }

UploadFileSet ==
    { Some(File("book.txt", "text/plain", Some(SampleText(n)))) :
        n \in {UploadBudget - 1, UploadBudget, UploadBudget + 1} }
    \cup { Some(File("notes.txt", "text/plain", Some("Cells divide by mitosis."))),
           Some(File("scan.pdf", "application/pdf", None)) }

\* the handlers that read uploaded files: /api/chat of the fallback and of the
\* Groq-only variant, /upload of the session variant and of the variant without
\* sessions. The servers share nothing: the requests to /api/chat are taken first,
\* one at a time, then those to /upload.
NextFiles ==
    \/ \E r \in FilesRequests : responses = <<>> /\ slots[1].pc = "idle" /\ Receive(r)
    \/ ChatParse \/ GroqChatParse \/ ChatFiles \/ ChatCleanup \/ ChatWeather
    \/ ChatModerate \/ CallAIAPI \/ GeminiReturn
    \/ (\E error \in GeminiErrors : GeminiThrow(error))
    \/ (\E out \in GroqOutcomes : GroqReturn(out))
    \/ GroqChatCall
    \/ (\E out \in GroqOutcomes : GroqChatReturn(out))
    \/ Finish
    \/ \E variant \in {"session", "sessionless"}, f \in UploadFileSet :
            pc = "idle" /\ Len(responses) < MaxUploads /\ Upload(1, variant, f, Some("A"))
    \/ UploadRead(1)
    \/ \E c \in Completions : UploadReturn(1, c)

SpecFiles == InitSessionSpec /\ [][NextFiles]_vars

-----------------------------------------------------------------------------
(* moderateContent as a function of its argument.                          *)

ModWords ==
    { "tell me about photosynthesis", "where can I buy", "heroin", "PORN", "Essex",
      "Kill", "hack", "bank", "a bomb" }

RECURSIVE WordTexts(_)
WordTexts(n) ==
    IF n = 0 THEN {""}
    ELSE LET shorter == WordTexts(n - 1)
         IN shorter \cup ModWords \cup {t \o " " \o w : t \in shorter \ {""}, w \in ModWords}

ModTexts ==
    {Str(t) : t \in WordTexts(MaxWords)}
        \cup {NonStr("undefined"), NonStr("number"), NonStr("object")}

InitModerateCall ==
    /\ env = AnyEnv /\ InitGateway /\ InitSession
    /\ mtext \in ModTexts /\ mres = None

\* moderateContent(mtext) is called and returns
ModerateCall ==
    /\ mres = None
    /\ mres' = Some(moderateContent(mtext))
    /\ UNCHANGED mtext
    /\ UNCHANGED <<gwVars, sVars>>

NextModerate == ModerateCall

SpecModerate == InitModerateCall /\ [][NextModerate]_vars

-----------------------------------------------------------------------------
(* Properties.                                                             *)

\* the calls made to the AI providers, in order
ProviderCalls == SelectSeq(calls, LAMBDA c : c.to \in {"google", "groq"})

Count(to) == Len(SelectSeq(calls, LAMBDA c : c.to = to))

\* the classification the specification states: a token of the fixed set occurs in
\* the text, compared case-insensitively
SignalSet ==
    { "api_key", "api-key", "quota", "billing", "401", "403", "429", "invalid api",
      "invalid key", "permission" }

SignalIn(text) == \E k \in SignalSet : includes(toLowerCase(text), k)

\* the text of a failure that the classification reads: its message, or its JSON
\* serialisation when the message is empty
ClassifiedText(error) ==
    IF error.message # "" THEN error.message
    ELSE IF error.status = None THEN "{}" ELSE "{\"status\":" \o error.status[1] \o "}"

PrimaryCredential ==
    /\ env.GOOGLE_GEMINI_API_KEY \notin {None, Some("")}
    /\ env.GOOGLE_GEMINI_API_KEY # Some("your_google_gemini_api_key_here")

SecondaryCredential == env.GROQ_API_KEY \notin {None, Some("")}

\* the handler has entered callAIAPI for the request it has answered
EnteredCallAIAPI == pc = "done" /\ ~req.badJson /\ res[1].status # 400

\* C1: with both credentials configured, a Gemini failure whose message carries a
\* classification token (such as 429) is followed by exactly one Groq call and no
\* further Gemini call, and a successful Groq completion is what is returned.
C1_FallbackOnce ==
    (PrimaryCredential /\ SecondaryCredential /\ gerr # None /\ SignalIn(gerr[1].message))
    => /\ Count("google") = 1
       /\ Count("groq") = 1
       /\ ProviderCalls = <<ProviderCalls[1], ProviderCalls[2]>>
       /\ ProviderCalls[1].to = "google" /\ ProviderCalls[2].to = "groq"
       /\ pc \in {"groq", "done"}
       /\ (pc = "done" /\ groqOut[1].kind = "ok")
            => /\ res[1].status = 200
               /\ res[1].content = groqOut[1].content
               /\ res[1].provider = "groq"

C1_Witness ==
    /\ pc = "done" /\ PrimaryCredential /\ SecondaryCredential
    /\ gerr # None /\ includes(gerr[1].message, "429")
    /\ groqOut # None /\ groqOut[1].kind = "ok"
    /\ res[1].status = 200 /\ res[1].provider = "groq"

\* C2 as stated: a Gemini failure whose message carries no classification token makes
\* callAIAPI fail with that error, and Groq is never called.
C2_AsStated ==
    (gerr # None /\ ~SignalIn(gerr[1].message))
    => /\ Count("groq") = 0
       /\ pc = "done"
       /\ res[1].status = 500

\* C2 (amended): a Gemini failure whose classified text (its message, or the JSON
\* serialisation of the error when the message is empty) carries no classification
\* token makes callAIAPI fail with that same error, reported by the handler as a 500
\* with the error's message, and Groq is never called, whatever the Groq credential.
C2_NoFallbackUnclassified ==
    (gerr # None /\ ~SignalIn(ClassifiedText(gerr[1])))
    => /\ Count("groq") = 0
       /\ groqOut = None
       /\ pc = "done"
       /\ res[1].status = 500
       /\ res[1].error =
            IF gerr[1].message # "" THEN gerr[1].message ELSE "Internal server error"

C2_Witness ==
    /\ pc = "done" /\ SecondaryCredential
    /\ gerr # None /\ gerr[1].message = "fetch failed"
    /\ res[1].status = 500 /\ res[1].error = "fetch failed"
    /\ Count("groq") = 0

\* C3: without a primary credential (unset, empty or the placeholder) no call is
\* made to Gemini, and the first provider call, once the handler reaches callAIAPI
\* with a Groq credential, is to Groq.
C3_NoPrimaryCall ==
    ~PrimaryCredential
    => /\ Count("google") = 0
       /\ ProviderCalls # <<>> => ProviderCalls[1].to = "groq"
       /\ (SecondaryCredential /\ EnteredCallAIAPI) => Count("groq") = 1

C3_Witness ==
    /\ env.GOOGLE_GEMINI_API_KEY = Some("your_google_gemini_api_key_here")
    /\ pc = "groq"
    /\ ProviderCalls # <<>> /\ ProviderCalls[1].to = "groq"

\* the Groq step of callAIAPI has been reached for the answered request
SecondaryStepReached ==
    /\ EnteredCallAIAPI
    /\ \/ ~PrimaryCredential
       \/ gerr # None /\ SignalIn(ClassifiedText(gerr[1]))

\* C4 as stated: the failure is a configuration error 'no AI provider configured'.
C4_AsStated ==
    (SecondaryStepReached /\ ~SecondaryCredential)
    => /\ Count("groq") = 0
       /\ res[1].status = 500
       /\ res[1].error = "no AI provider configured"

\* C4 (amended): when the Groq step is reached without a Groq credential, callAIAPI
\* fails with the error 'No AI API keys configured' without any Groq call, and the
\* handler answers with HTTP 500 carrying that message.
C4_NoProviderConfigured ==
    /\ ~SecondaryCredential => Count("groq") = 0
    /\ (SecondaryStepReached /\ ~SecondaryCredential)
        => /\ res[1].status = 500
           /\ res[1].error = "No AI API keys configured"
           /\ groqOut = None

C4_Witness ==
    /\ SecondaryStepReached /\ ~SecondaryCredential
    /\ gerr # None
    /\ req.endpoint = "quiz"
    /\ res[1].status = 500

\* a /upload answered 500 because deleting its file failed, after the completion
\* call had succeeded
UnlinkFailed(r) ==
    /\ r.kind = "upload" /\ r.status = 500 /\ r.at = "await"
    /\ r.details = "ENOENT: no such file or directory, unlink '" \o r.file.path \o "'"

\* the turns a request of the session variant leaves under `key`, by its response
TurnsLeft(r, key) ==
    IF r.key # key \/ r.variant # "session" THEN <<>>
    ELSE IF r.kind = "ask" /\ r.status = 200
    THEN <<[role |-> "user", content |-> r.query], [role |-> "assistant", content |-> r.text]>>
    ELSE IF r.kind = "ask" /\ r.status = 500
    THEN <<[role |-> "user", content |-> r.query]>>
    ELSE IF r.kind = "upload" /\ (r.status = 200 \/ UnlinkFailed(r))
    THEN <<[role |-> "system",
            content |-> "User uploaded a file: " \o r.file.originalname \o ". Content:\n\n"
                        \o r.truncated]>>
    ELSE <<>>

\* the turns the answered requests leave under `key`, in the order of the requests
RECURSIVE TurnsInRequestOrder(_, _)
TurnsInRequestOrder(rs, key) ==
    IF rs = <<>> THEN <<>>
    ELSE TurnsLeft(Head(rs), key) \o TurnsInRequestOrder(Tail(rs), key)

SessionKeys == {"undefined", "default", "A", "B"}

StoredHistory(key) == IF key \in DOMAIN chatHistory THEN chatHistory[key] ELSE <<>>

\* the turn the request in flight on connection 1 has appended so far
InFlightTurns(key) ==
    IF slots[1].pc = "await" /\ slots[1].kind = "ask" /\ slots[1].key = key
    THEN <<[role |-> "user", content |-> slots[1].query]>>
    ELSE <<>>

\* C5: with requests one at a time, each session's history is the turns of its
\* requests in request order: user then assistant turn for an answered /ask (the
\* user turn alone when the completion failed), the file turn for an answered /upload.
C5_HistoryInAppendOrder ==
    \A key \in SessionKeys :
        StoredHistory(key) = TurnsInRequestOrder(responses, key) \o InFlightTurns(key)

C5_Witness ==
    /\ slots[1].pc = "idle"
    /\ "A" \in DOMAIN chatHistory
    /\ Len(chatHistory["A"]) = 4
    /\ chatHistory["A"][1].role = "user" /\ chatHistory["A"][2].role = "assistant"
    /\ chatHistory["A"][3].role = "system" /\ chatHistory["A"][4].role = "user"
    /\ chatHistory["A"][1].content # chatHistory["A"][4].content

\* the message list of the request in flight on connection i
SentBy(i) ==
    sent[CHOOSE n \in DOMAIN sent :
            sent[n].slot = i /\ \A m \in DOMAIN sent : m > n => sent[m].slot # i].messages

AsksInFlightOn(key) ==
    {i \in DOMAIN slots : slots[i].pc = "await" /\ slots[i].kind = "ask" /\ slots[i].key = key}

\* C6: when two /ask requests of one session are in flight together, the later one's
\* message list extends the earlier one's and carries the earlier one's unanswered
\* user turn; when nothing was appended in between, the stored history has these two
\* user turns in a row.
C6_ConcurrentAsksInterleave ==
    \A key \in SessionKeys : \A i, j \in AsksInFlightOn(key) :
        (i # j /\ Len(SentBy(i)) <= Len(SentBy(j)))
        => /\ Len(SentBy(i)) < Len(SentBy(j))
           /\ SubSeq(SentBy(j), 1, Len(SentBy(i))) = SentBy(i)
           /\ SentBy(j)[Len(SentBy(i))] = [role |-> "user", content |-> slots[i].query]
           /\ chatHistory[key][Len(SentBy(i)) - 1] = [role |-> "user", content |-> slots[i].query]
           /\ Len(SentBy(j)) = Len(SentBy(i)) + 1
                => /\ chatHistory[key][Len(SentBy(i))].role = "user"
                   /\ chatHistory[key][Len(SentBy(i))].content = slots[j].query

C6_Witness ==
    /\ AsksInFlightOn("A") = {1, 2}
    /\ slots[1].query # slots[2].query
    /\ LET h == chatHistory["A"]
       IN /\ Len(h) >= 2
          /\ h[Len(h) - 1] = [role |-> "user", content |-> slots[1].query]
          /\ h[Len(h)] = [role |-> "user", content |-> slots[2].query]
          /\ \E n \in DOMAIN SentBy(2) :
                SentBy(2)[n] = [role |-> "user", content |-> slots[1].query]


\* the reference moderation of C8
ModerationReference(text) ==
    IF text.type # "string" \/ text.str = "" THEN [allowed |-> TRUE]
    ELSE IF \E i \in DOMAIN adultKeywords : includes(toLowerCase(text.str), adultKeywords[i])
    THEN [allowed |-> FALSE, reason |-> "adult"]
    ELSE IF \E i \in DOMAIN illegalKeywords :
                includes(toLowerCase(text.str), illegalKeywords[i])
    THEN [allowed |-> FALSE, reason |-> "illegal"]
    ELSE [allowed |-> TRUE]

\* the text of the request that the handler submits to moderation
SubmittedText ==
    IF req.endpoint = "quiz" THEN Str(OrDefault(req.topic, ""))
    ELSE Str(OrDefault(req.userMessage, ""))

\* a request whose user text (userMessage, topic) moderation must reject
MustBeRejected ==
    /\ req.endpoint \in {"chat", "quiz"} /\ ~req.badJson
    /\ ~ModerationReference(SubmittedText).allowed

PastModeration == pc \in {"callAI", "gemini", "groq", "done"}

C8_ModerationReference ==
    mres # None
    => /\ mres[1] = ModerationReference(mtext)
       /\ mtext = Str("tell me about photosynthesis") => mres[1] = [allowed |-> TRUE]
       /\ mtext = Str("where can I buy heroin")
            => mres[1] = [allowed |-> FALSE, reason |-> "illegal"]
       /\ mtext = Str("PORN a bomb") => mres[1] = [allowed |-> FALSE, reason |-> "adult"]

C8_Witness ==
    /\ mtext = Str("where can I buy heroin")
    /\ mres = Some([allowed |-> FALSE, reason |-> "illegal"])

\* the prefix of text of length min(length, n)
Prefix(text, n) == SubSeq(text, 1, IF Len(text) < n THEN Len(text) ELSE n)

\* the files /api/chat extracts text from
IsRead(file) ==
    \/ file.mimetype = "application/pdf"
    \/ startsWith(file.mimetype, "text/")
    \/ file.mimetype \in {"application/x-yaml", "application/javascript"}

ContentLabel(file) ==
    IF file.mimetype = "application/pdf" THEN "[PDF CONTENT]:\n" ELSE "[TEXT CONTENT]:\n"

\* the excerpt of a file between its label and the end of its line
ExcerptEntry(file, budget) ==
    "[FILE: " \o file.originalname \o "]\n" \o ContentLabel(file)
        \o Prefix(file.text[1], budget) \o "\n"

\* /api/chat has run the loop over the files of the request it is handling
FilesProcessed ==
    /\ req.endpoint = "chat"
    /\ pc \in {"cleanup", "weather", "moderate", "callAI", "gemini", "groq",
               "groq_call", "groq_fetch"}

UploadPrompt(variant) ==
    IF variant = "session" THEN "Summarize this document:\n\n"
    ELSE "Summarize this document in detail:\n\n"

\* C9: the excerpt of an uploaded file that reaches the prompt is the prefix of
\* its extracted text of length min(length, budget), with a budget of 3000
\* characters in /api/chat and of 65000 in /upload, and a text that was extracted
\* always gets past the truncation, whatever its length.
C9_ExcerptIsPrefix ==
    /\ FilesProcessed =>
         \A i \in 1..Len(req.files) :
            IsRead(req.files[i]) /\ req.files[i].text # None
            => /\ includes(fileContext, ExcerptEntry(req.files[i], ChatBudget))
               /\ Len(req.files[i].text[1]) > ChatBudget
                    => ~includes(fileContext, Prefix(req.files[i].text[1], ChatBudget + 1))
               /\ \A c \in 1..Len(ProviderCalls) :
                    includes(ProviderCalls[c].messages[1].content,
                             ExcerptEntry(req.files[i], ChatBudget))
    /\ \A i \in DOMAIN slots :
         slots[i].kind = "upload" /\ slots[i].pc = "await"
         => /\ slots[i].truncated = Prefix(slots[i].file.text[1], UploadBudget)
            /\ Len(slots[i].truncated) <= UploadBudget
            /\ sent # <<>>
            /\ LET messages == sent[Len(sent)].messages
               IN messages[Len(messages)].content
                    = UploadPrompt(slots[i].variant) \o Prefix(slots[i].file.text[1], UploadBudget)
    /\ \A n \in 1..Len(responses) :
         LET r == responses[n]
         IN r.kind = "upload" /\ r.file.text # None
            => /\ r.at = "await"
               /\ r.truncated = Prefix(r.file.text[1], UploadBudget)
               /\ r.status = 200 /\ r.variant = "session" /\ n = Len(responses)
                    => LET h == StoredHistory(r.key)
                       IN h # <<>> /\ h[Len(h)].content
                            = "User uploaded a file: " \o r.file.originalname
                                \o ". Content:\n\n" \o Prefix(r.file.text[1], UploadBudget)

C9_Witness ==
    /\ slots[1].kind = "upload" /\ slots[1].pc = "await"
    /\ Len(slots[1].file.text[1]) = UploadBudget + 1
    /\ Len(slots[1].truncated) = UploadBudget

\* the annotation /api/chat writes for a file whose text could not be extracted
PlaceholderEntry(file) ==
    "[FILE: " \o file.originalname \o "]\n" \o
    ( IF file.mimetype = "application/pdf"
      THEN "[PDF FILE - Unable to parse, but available for context]\n"
      ELSE "[Text file - Unable to read]\n" )

ExtractionFailed(file) == IsRead(file) /\ file.text = None

\* the provider has failed the request /api/chat is handling
ProviderFailed ==
    \/ gerr # None /\ ~shouldFallback(gerr[1])
    \/ groqOut # None /\ groqOut[1].kind # "ok"

-----------------------------------------------------------------------------
(* Provider failures as the handlers answer them.                          *)

\* the provider callAIAPI called last
LastAttempted == ProviderCalls[Len(ProviderCalls)].to

\* the request is answered and the provider called last has failed
LastProviderFailed ==
    /\ pc = "done" /\ req.variant = "fallback" /\ ProviderCalls # <<>>
    /\ \/ LastAttempted = "groq" /\ groqOut # None /\ groqOut[1].kind # "ok"
       \/ LastAttempted = "google" /\ gerr # None

\* the message of the failure of the provider called last, <<>> when it has none
UpstreamMessage ==
    IF LastAttempted = "groq" THEN groqOut[1].message ELSE Some(gerr[1].message)

\* C11 as stated: when the provider called last fails, the response has status 500
\* and its error field is that provider's error message.
C11_AsStated ==
    LastProviderFailed
    => /\ res[1].status = 500
       /\ Truthy(UpstreamMessage) => res[1].error = UpstreamMessage[1]

\* C11: when the provider called last fails, the response has status 500; its
\* error is the message of Groq's failure (or "Groq API error: <status>" when the
\* error body has none), or the message of an unclassified Gemini failure (or
\* "Internal server error" when it is empty), and it is "No AI API keys
\* configured" when Gemini failed with a classified error and no Groq key is set.
C11_ProviderFailureSurfaced ==
    LastProviderFailed
    => /\ res[1].status = 500
       /\ res[1].provider = "" /\ res[1].content = ""
       /\ res[1].error =
            IF LastAttempted = "groq"
            THEN IF Truthy(groqOut[1].message) THEN groqOut[1].message[1]
                 ELSE "Groq API error: " \o groqOut[1].status
            ELSE IF SignalIn(ClassifiedText(gerr[1])) THEN "No AI API keys configured"
            ELSE IF gerr[1].message # "" THEN gerr[1].message
            ELSE "Internal server error"

C11_Witness ==
    /\ LastProviderFailed /\ LastAttempted = "groq" /\ Count("google") = 1
    /\ groqOut[1].kind = "http"
    /\ res[1].status = 500 /\ res[1].error = "Rate limit reached for model"

-----------------------------------------------------------------------------
(* Validation of the session variant's requests.                           *)

\* the step answers a request with `status` and `text`
Answers(status, text) ==
    /\ Len(responses') = Len(responses) + 1
    /\ responses'[Len(responses')].status = status
    /\ responses'[Len(responses')].text = text

\* C12: in the session variant a /ask whose query is missing or empty is answered
\* with HTTP 400, sends nothing to the provider and leaves the session store as it
\* was, whatever the sessionId and whatever else is in flight; so does a /upload
\* without a file.
C12_RejectedLeavesStore ==
    [][ /\ \A i \in DOMAIN slots, query \in {None, Some("")}, sessionId \in SessionIds :
            Ask(i, query, sessionId)
            => /\ Answers(400, "Query is required")
               /\ chatHistory' = chatHistory /\ sent' = sent /\ slots' = slots
        /\ \A i \in DOMAIN slots, sessionId \in SessionIds :
            Upload(i, "session", None, sessionId)
            => /\ Answers(400, "No file uploaded")
               /\ chatHistory' = chatHistory /\ sent' = sent /\ slots' = slots
        /\ (\E n \in DOMAIN responses' : n > Len(responses) /\ responses'[n].status = 400)
            => chatHistory' = chatHistory /\ sent' = sent
      ]_vars

C12_Witness ==
    /\ \E n \in DOMAIN responses :
         /\ responses[n].kind = "ask" /\ responses[n].status = 400
         /\ responses[n].key = "A"
    /\ \E n \in DOMAIN responses :
         responses[n].kind = "upload" /\ responses[n].status = 400
    /\ "A" \notin DOMAIN chatHistory
    /\ "undefined" \in DOMAIN chatHistory
    /\ Len(sent) = 1

-----------------------------------------------------------------------------
(* The fallback after a Gemini failure.                                    *)

\* the call made to provider `to`; there is at most one
CallTo(to) == SelectSeq(calls, LAMBDA c : c.to = to)[1]

-----------------------------------------------------------------------------
(* The uploads directory when a request is answered.                       *)

\* C14 as stated: when the response of a /api/chat or /upload request is sent,
\* every file stored for that request has been deleted, whatever the outcome.
C14_AsStated ==
    /\ pc = "done" /\ req.endpoint = "chat" => disk = {}
    /\ slots[1].pc = "idle"
         => \A n \in DOMAIN responses :
              responses[n].kind = "upload" /\ responses[n].file # NoFile
              => responses[n].file.path \notin uploads

-----------------------------------------------------------------------------
(* usage.provider of a result of callAIAPI.                                *)

\* callAIAPI has returned a completion
CallSucceeded == pc = "done" /\ req.variant = "fallback" /\ res[1].status = 200

\* C15: a result of callAIAPI carries usage.provider 'google' exactly when the
\* Gemini call produced the content and 'groq' exactly when the Groq call did; it
\* is never 'google' after a fallback and never absent.
C15_ProviderNamesSource ==
    CallSucceeded
    => /\ res[1].provider \in {"google", "groq"}
       /\ res[1].provider = "google"
            <=> Count("google") = 1 /\ gerr = None /\ groqOut = None
       /\ res[1].provider = "groq"
            <=> groqOut # None /\ groqOut[1].kind = "ok"
       /\ res[1].provider = "google"
            => /\ res[1].content = GeminiText
               /\ Count("groq") = 0
       /\ res[1].provider = "groq"
            => /\ res[1].content = groqOut[1].content
               /\ LastAttempted = "groq"
       /\ gerr # None => res[1].provider = "groq"

C15_Witness ==
    /\ CallSucceeded /\ gerr # None
    /\ Count("google") = 1 /\ Count("groq") = 1
    /\ res[1].provider = "groq" /\ res[1].content = "An answer from Groq."

-----------------------------------------------------------------------------
(* The sampling temperature.                                               *)

\* C16: the temperature sent with a completion request is 0.9 when config.tone is
\* 'creative', 0.3 when it is 'precise' and 0.7 for every other config (tone
\* absent, empty, 'balanced', or outside the enumeration), in both Groq variants
\* of /api/chat, and Gemini and Groq get the same temperature for one request.
\* Temperatures are in tenths.
C16_TemperatureFromTone ==
    req.endpoint = "chat"
    => /\ \A c \in DOMAIN ProviderCalls :
            ProviderCalls[c].temperature =
                IF req.config.tone = Some("creative") THEN 9
                ELSE IF req.config.tone = Some("precise") THEN 3
                ELSE 7
       /\ \A c, d \in DOMAIN ProviderCalls :
            ProviderCalls[c].temperature = ProviderCalls[d].temperature
       /\ \A c \in DOMAIN ProviderCalls :
            req.config.tone \in {None, Some(""), Some("balanced"), Some("CREATIVE"),
                                 Some("sarcastic")}
            => ProviderCalls[c].temperature = 7

C16_Witness ==
    /\ req.endpoint = "chat" /\ req.variant = "fallback"
    /\ req.config.tone = Some("precise")
    /\ pc = "groq" /\ gerr # None
    /\ Len(ProviderCalls) = 2
    /\ ProviderCalls[1].to = "google" /\ ProviderCalls[1].temperature = 3
    /\ ProviderCalls[2].to = "groq" /\ ProviderCalls[2].temperature = 3

-----------------------------------------------------------------------------
(* The defaults of the system prompt.                                      *)

Modes == {Some("tutor"), Some("summarizer"), Some("examiner")}
Tones == {Some("creative"), Some("balanced"), Some("precise")}

\* the opening of the system prompt for a personality, a mode and a tone
PromptHead(variant, personality, mode, tone) ==
    IF variant = "fallback"
    THEN "You are EzStudy AI, a " \o personality \o " " \o mode
            \o ".\n    Your tone should be " \o tone \o ".\n    "
    ELSE "You are EzStudy AI, a " \o personality \o " " \o mode
            \o ". \nYour tone should be " \o tone \o ". \n"

\* the system prompt sent with provider call c
PromptOf(c) == ProviderCalls[c].messages[1].content

\* C17 as stated: a field of config that is absent or no member of its
\* enumeration is replaced by its default in the system prompt of /api/chat.
C17_AsStated ==
    req.endpoint = "chat"
    => \A c \in DOMAIN ProviderCalls :
         startsWith(PromptOf(c),
            PromptHead(req.variant,
                IF Truthy(req.config.personality) THEN req.config.personality[1]
                ELSE "friendly",
                IF req.config.mode \in Modes THEN req.config.mode[1] ELSE "tutor",
                IF req.config.tone \in Tones THEN req.config.tone[1] ELSE "balanced"))

\* C17: a field of config that is absent or empty is replaced by its default
\* ('friendly', 'tutor', 'balanced') in the system prompt of /api/chat; any other
\* value is used as supplied, member of the enumeration or not.
C17_DefaultsForAbsent ==
    req.endpoint = "chat"
    => \A c \in DOMAIN ProviderCalls :
         /\ ProviderCalls[c].messages[1].role = "system"
         /\ startsWith(PromptOf(c),
              PromptHead(req.variant,
                IF req.config.personality \in {None, Some("")} THEN "friendly"
                ELSE req.config.personality[1],
                IF req.config.mode \in {None, Some("")} THEN "tutor"
                ELSE req.config.mode[1],
                IF req.config.tone \in {None, Some("")} THEN "balanced"
                ELSE req.config.tone[1]))
         /\ req.config.mode = Some("pirate") /\ req.config.tone = Some("sarcastic")
              => /\ includes(SubSeq(PromptOf(c), 1, 80), " pirate.")
                 /\ includes(SubSeq(PromptOf(c), 1, 80), "Your tone should be sarcastic.")

C17_Witness ==
    /\ req.endpoint = "chat" /\ req.variant = "groqOnly" /\ pc = "groq_fetch"
    /\ req.config.personality = Some("") /\ req.config.mode = Some("pirate")
    /\ req.config.tone = None
    /\ startsWith(calls[1].messages[1].content,
         "You are EzStudy AI, a friendly pirate. \nYour tone should be balanced. \n")

-----------------------------------------------------------------------------
(* The session store only grows.                                           *)

IsPrefix(s, t) == Len(s) <= Len(t) /\ SubSeq(t, 1, Len(s)) = s

\* C18: in every step of every interleaving of /ask and /upload requests, each
\* session that exists still exists afterwards and its history before the step is
\* a prefix of its history after it: no turn is removed, reordered or changed.
C18_HistoryAppendOnly ==
    [][ \A key \in DOMAIN chatHistory :
            /\ key \in DOMAIN chatHistory'
            /\ IsPrefix(chatHistory[key], chatHistory'[key])
            /\ Len(chatHistory'[key]) <= Len(chatHistory[key]) + 1
      ]_vars

C18_Witness ==
    /\ DOMAIN chatHistory = {"A", "default"}
    /\ Len(chatHistory["A"]) = 2
    /\ chatHistory["A"][1].role = "user" /\ chatHistory["A"][2].role = "user"
    /\ chatHistory["default"][1].role = "system"
    /\ \E i \in DOMAIN slots : slots[i].pc = "await" /\ slots[i].key = "A"

-----------------------------------------------------------------------------
(* No retry beyond the single fallback.                                    *)

\* C19: in one execution of callAIAPI Gemini is called at most once, Groq is
\* called at most once, and Gemini is never called after Groq, whatever the
\* credentials and whatever the providers answer.
C19_AtMostOneCallEach ==
    /\ Count("google") <= 1
    /\ Count("groq") <= 1
    /\ Len(ProviderCalls) <= 2
    /\ \A c, d \in DOMAIN ProviderCalls :
         ProviderCalls[c].to = "groq" /\ ProviderCalls[d].to = "google" => d < c

C19_Witness ==
    /\ pc = "done" /\ res[1].status = 500
    /\ Len(ProviderCalls) = 2
    /\ ProviderCalls[1].to = "google" /\ ProviderCalls[2].to = "groq"
    /\ groqOut # None /\ groqOut[1].kind = "throw"

-----------------------------------------------------------------------------
(* What the fallback decision reads.                                       *)

\* callAIAPI went past the catch block of the Gemini attempt to its Groq step:
\* Groq was called, or the step found no Groq key and threw
FellThrough ==
    \/ Count("groq") = 1
    \/ /\ ~SecondaryCredential /\ pc = "done"
       /\ res[1].status = 500 /\ res[1].error = "No AI API keys configured"

\* a token of the fixed set occurs in the failure's status code
StatusSignal(error) == error.status # None /\ SignalIn(error.status[1])

\* C20 as stated: a Gemini failure is fallback-eligible exactly when its message or
\* its status carries one of the ten tokens, so that a failure with status 401, 403
\* or 429 is eligible whatever its message.
C20_AsStated ==
    gerr # None
    => (FellThrough <=> (SignalIn(gerr[1].message) \/ StatusSignal(gerr[1])))

\* C20 (amended): a Gemini failure is fallback-eligible exactly when the text
\* error.message || JSON.stringify(error), lower-cased, contains one of the ten
\* tokens. The status is read only through that serialisation, hence only when the
\* message is empty: an empty message with status 429 is eligible, a non-empty
\* message without a token is not eligible even with status 429, and an empty
\* message without a status is not eligible.
C20_EligibleByClassifiedText ==
    gerr # None
    => /\ FellThrough <=> SignalIn(ClassifiedText(gerr[1]))
       /\ (gerr[1].message = "" /\ gerr[1].status \in {Some("401"), Some("403"), Some("429")})
            => FellThrough
       /\ (gerr[1].message # "" /\ ~SignalIn(gerr[1].message)) => ~FellThrough
       /\ (gerr[1].message = "" /\ gerr[1].status = None) => ~FellThrough

C20_Witness ==
    /\ pc = "done" /\ SecondaryCredential
    /\ gerr = Some(Error("", Some("429")))
    /\ Count("groq") = 1 /\ groqOut # None /\ groqOut[1].kind = "ok"
    /\ res[1].status = 200

-----------------------------------------------------------------------------
(* The order of the messages handed to the provider.                       *)

\* the call log gained a call to an AI provider in this step
NewProviderCall ==
    /\ Len(calls') = Len(calls) + 1
    /\ calls'[Len(calls')].to \in {"google", "groq"}

\* the session variant sent a completion request for a /ask in this step
NewAskSent ==
    /\ Len(sent') = Len(sent) + 1
    /\ slots'[sent'[Len(sent')].slot].kind = "ask"

\* C21: the messages handed to the provider for a chat request are the server's
\* system turn, then the prior history in its order, then the new user turn: for
\* /api/chat the history is the one the caller supplied, for /ask it is the session
\* history as stored before the request, and the stored history then ends with the
\* new user turn.
C21_SystemHistoryUser ==
    [][ /\ (NewProviderCall /\ req.endpoint = "chat")
            => LET m == calls'[Len(calls')].messages
               IN /\ Len(m) = Len(req.messages) + 2
                  /\ m[1] = systemMessage(env, req.config, fileContext, weatherSummary)
                  /\ \A k \in 1..Len(req.messages) : m[k + 1] = req.messages[k]
                  /\ req.userMessage # None
                  /\ m[Len(m)] = Turn("user", req.userMessage[1])
        /\ NewAskSent
            => LET e == sent'[Len(sent')]
                   key == slots'[e.slot].key
                   prior == IF key \in DOMAIN chatHistory THEN chatHistory[key] ELSE <<>>
                   turn == Turn("user", slots'[e.slot].query)
               IN /\ e.messages = <<Turn("system", "You are a helpful AI assistant.")>>
                                     \o prior \o <<turn>>
                  /\ chatHistory'[key] = prior \o <<turn>>
      ]_vars

C21_Witness ==
    \E k \in DOMAIN sent :
        LET m == sent[k].messages
        IN /\ Len(m) = 5
           /\ m[1] = Turn("system", "You are a helpful AI assistant.")
           /\ m[2].role = "system" /\ m[3].role = "user"
           /\ m[4].role = "assistant" /\ m[5] = Turn("user", "And a tissue?")
           /\ slots[sent[k].slot].pc = "await" /\ slots[sent[k].slot].query = "And a tissue?"

-----------------------------------------------------------------------------
(* What /api/chat submits to moderation.                                   *)

\* the userMessage of the request carries a disallowed keyword
UserTextBlocked == ~ModerationReference(Str(OrDefault(req.userMessage, ""))).allowed

\* the text extracted from one of the uploaded files carries a disallowed keyword
FileTextBlocked ==
    \E i \in DOMAIN req.files :
        /\ req.files[i].text # None
        /\ ~ModerationReference(Str(req.files[i].text[1])).allowed

\* C22 as stated: /api/chat moderates the user message and the file context: a
\* request whose userMessage or whose extracted file text carries a disallowed
\* keyword is answered 400 and no provider is called, also when the userMessage is
\* non-empty and clean.
C22_AsStated ==
    ( PastModeration /\ req.endpoint = "chat" /\ ~req.badJson
      /\ (UserTextBlocked \/ FileTextBlocked) )
    => /\ pc = "done"
       /\ res[1].status = 400
       /\ ProviderCalls = <<>>

-----------------------------------------------------------------------------
(* Appends of overlapping requests.                                        *)

\* how often turn t occurs in the sequence s
Occurrences(s, t) == Cardinality({n \in DOMAIN s : s[n] = t})

\* the user turns of the /ask requests that await their completion under `key`
RECURSIVE AwaitingTurns(_, _)
AwaitingTurns(conns, key) ==
    IF conns = {} THEN <<>>
    ELSE LET i == CHOOSE c \in conns : TRUE
         IN ( IF slots[i].pc = "await" /\ slots[i].kind = "ask" /\ slots[i].key = key
              THEN <<[role |-> "user", content |-> slots[i].query]>>
              ELSE <<>> ) \o AwaitingTurns(conns \ {i}, key)

\* every turn any request has appended under `key`
AppendedTurns(key) ==
    TurnsInRequestOrder(responses, key) \o AwaitingTurns(DOMAIN slots, key)

\* C23: whatever the interleaving of /ask and /upload requests on a session, its
\* history holds each appended turn exactly once (none lost, none duplicated), and
\* the assistant turn of an answered /ask stands after that request's user turn.
C23_NoLostAppend ==
    \A key \in SessionKeys :
        LET h == StoredHistory(key)
        IN /\ Len(h) = Len(AppendedTurns(key))
           /\ \A n \in DOMAIN h : Occurrences(h, h[n]) = Occurrences(AppendedTurns(key), h[n])
           /\ \A r \in DOMAIN responses :
                (responses[r].kind = "ask" /\ responses[r].status = 200
                   /\ responses[r].key = key)
                => \E p, q \in DOMAIN h :
                      /\ p < q
                      /\ h[p] = [role |-> "user", content |-> responses[r].query]
                      /\ h[q] = [role |-> "assistant", content |-> responses[r].text]

C23_Witness ==
    /\ \A i \in DOMAIN slots : slots[i].pc = "idle"
    /\ Len(responses) = 2
    /\ responses[1].kind = "upload" /\ responses[1].status = 200 /\ responses[1].key = "A"
    /\ responses[2].kind = "ask" /\ responses[2].status = 200 /\ responses[2].key = "A"
    /\ Len(StoredHistory("A")) = 3
    /\ StoredHistory("A")[1] = [role |-> "user", content |-> responses[2].query]
    /\ StoredHistory("A")[2].role = "system"
    /\ StoredHistory("A")[3] = [role |-> "assistant", content |-> responses[2].text]

-----------------------------------------------------------------------------
(* A /ask whose completion call fails.                                     *)

\* a /ask is answered 500 in this step
AskFails ==
    /\ Len(responses') = Len(responses) + 1
    /\ responses'[Len(responses')].kind = "ask"
    /\ responses'[Len(responses')].status = 500

\* the /ask requests on `key` answered 500 so far
FailedAsks(key) ==
    {r \in DOMAIN responses :
        responses[r].kind = "ask" /\ responses[r].status = 500 /\ responses[r].key = key}

\* C24: when the completion call of a /ask fails, the response is 500 'Failed to
\* fetch response from Groq AI', the handler leaves every history as it is, so the
\* request's user turn stays stored without an assistant turn, and every later /ask
\* on that session sends that unanswered user turn to the provider, before its own.
C24_FailedAskKeepsUserTurn ==
    [][ /\ AskFails
            => LET r == responses'[Len(responses')]
               IN /\ r.text = "Failed to fetch response from Groq AI"
                  /\ chatHistory' = chatHistory
                  /\ \E n \in DOMAIN chatHistory[r.key] :
                        chatHistory[r.key][n] = [role |-> "user", content |-> r.query]
        /\ NewAskSent
            => LET e == sent'[Len(sent')]
                   key == slots'[e.slot].key
               IN \A r \in FailedAsks(key) :
                     \E n \in 2..(Len(e.messages) - 1) :
                        e.messages[n] = [role |-> "user", content |-> responses[r].query]
      ]_vars

C24_Witness ==
    /\ Len(responses) = 1
    /\ responses[1].kind = "ask" /\ responses[1].status = 500 /\ responses[1].key = "A"
    /\ responses[1].query = "What is a cell?"
    /\ slots[1].pc = "await" /\ slots[1].kind = "ask" /\ slots[1].key = "A"
    /\ slots[1].query = "And a tissue?" /\ slots[2].pc = "idle"
    /\ chatHistory["A"] = << [role |-> "user", content |-> "What is a cell?"],
                             [role |-> "user", content |-> "And a tissue?"] >>
    /\ SentBy(1) = << [role |-> "system", content |-> "You are a helpful AI assistant."],
                      [role |-> "user", content |-> "What is a cell?"],
                      [role |-> "user", content |-> "And a tissue?"] >>

-----------------------------------------------------------------------------
(* When /upload stores its file turn.                                      *)

\* a /upload of the session variant is answered in this step
UploadAnswered ==
    /\ Len(responses') = Len(responses) + 1
    /\ responses'[Len(responses')].kind = "upload"
    /\ responses'[Len(responses')].variant = "session"
    /\ responses'[Len(responses')].status # 400

\* the completion call of the answered /upload had succeeded
Summarized(r) == r.status = 200 \/ UnlinkFailed(r)

\* the file turn of an answered /upload
FileTurnOf(r) ==
    [role |-> "system",
     content |-> "User uploaded a file: " \o r.file.originalname \o ". Content:\n\n"
                 \o r.truncated]

\* some session's history gains a system turn in this step
SystemTurnStored ==
    \E key \in DOMAIN chatHistory' :
        /\ Len(chatHistory'[key]) > Len(StoredHistory(key))
        /\ chatHistory'[key][Len(chatHistory'[key])].role = "system"

\* C25: /upload stores its file turn only once the completion call has succeeded.
\* A /upload whose extraction or completion call fails is answered 500 and leaves
\* every history as it is; one whose completion call succeeds appends exactly its
\* file turn to its session and changes no other session; no other step stores a
\* system turn; and every later /ask on that session sends the file turn.
C25_FileTurnAfterSummary ==
    [][ /\ UploadAnswered
            => LET r == responses'[Len(responses')]
               IN IF Summarized(r)
                  THEN chatHistory' =
                         [k \in DOMAIN chatHistory \cup {r.key} |->
                            IF k = r.key THEN Append(StoredHistory(r.key), FileTurnOf(r))
                            ELSE chatHistory[k]]
                  ELSE /\ r.status = 500 /\ r.text = "Failed to process file"
                       /\ chatHistory' = chatHistory
        /\ SystemTurnStored
            => UploadAnswered /\ Summarized(responses'[Len(responses')])
        /\ NewAskSent
            => LET e == sent'[Len(sent')]
                   key == slots'[e.slot].key
               IN \A r \in DOMAIN responses :
                     ( responses[r].kind = "upload" /\ responses[r].variant = "session"
                       /\ responses[r].key = key /\ Summarized(responses[r]) )
                     => \E n \in 2..(Len(e.messages) - 1) :
                           e.messages[n] = FileTurnOf(responses[r])
      ]_vars

C25_Witness ==
    /\ Len(responses) = 2
    /\ responses[1].kind = "upload" /\ responses[1].status = 500
    /\ responses[1].at = "await" /\ responses[1].key = "A" /\ ~UnlinkFailed(responses[1])
    /\ responses[2].kind = "upload" /\ responses[2].status = 200 /\ responses[2].key = "A"
    /\ chatHistory["A"] = <<FileTurnOf(responses[2]), [role |-> "user", content |-> "What is a cell?"]>>
    /\ slots[1].pc = "await" /\ slots[1].kind = "ask" /\ slots[1].key = "A"
    /\ SentBy(1) = <<[role |-> "system", content |-> "You are a helpful AI assistant."]>>
                      \o chatHistory["A"]

-----------------------------------------------------------------------------
(* /api/chat without a userMessage.                                        *)

\* the request being handled is a /api/chat whose userMessage is absent or empty
NoUserMessage == req.endpoint = "chat" /\ req.userMessage \in {None, Some("")}

-----------------------------------------------------------------------------
(* Requests without a sessionId.                                           *)

\* C27: a /upload without a sessionId works under the key 'default', a /ask without
\* a sessionId reads and appends under the key 'undefined' alone, and the messages
\* such a /ask sends hold no turn stored under 'default': a file uploaded without a
\* sessionId never reaches a /ask sent without one.
C27_DefaultKeysDiffer ==
    [][ \A i \in DOMAIN slots :
          /\ \A f \in SessionFiles \ {None} :
                Upload(i, "session", f, None) => slots'[i].key = "default"
          /\ \A q \in Queries \ {None, Some("")} :
                Ask(i, q, None)
                => /\ slots'[i].key = "undefined"
                   /\ \A k \in DOMAIN chatHistory : chatHistory'[k] = chatHistory[k]
                         \/ k = "undefined"
                   /\ LET m == sent'[Len(sent')].messages
                      IN /\ Tail(m) = chatHistory'["undefined"]
                         /\ \A n \in 2..Len(m) :
                               /\ m[n].role # "system"
                               /\ \A d \in DOMAIN StoredHistory("default") :
                                     m[n] # StoredHistory("default")[d]
      ]_vars

C27_Witness ==
    /\ Len(responses) = 1
    /\ responses[1].kind = "upload" /\ responses[1].status = 200
    /\ responses[1].key = "default"
    /\ DOMAIN chatHistory = {"default", "undefined"}
    /\ chatHistory["default"] = <<FileTurnOf(responses[1])>>
    /\ slots[1].pc = "await" /\ slots[1].kind = "ask" /\ slots[1].key = "undefined"
    /\ slots[2].pc = "idle"
    /\ SentBy(1) = << [role |-> "system", content |-> "You are a helpful AI assistant."],
                      [role |-> "user", content |-> slots[1].query] >>

-----------------------------------------------------------------------------
(* Sessions do not touch one another.                                      *)

\* the session key of the request that moves on connection i in this step
ActingKey(i) == IF slots[i].pc = "idle" THEN slots'[i].key ELSE slots[i].key

\* the history stored under `key` differs after this step
HistoryChanged(key) ==
    \/ key \notin DOMAIN chatHistory
    \/ chatHistory'[key] # chatHistory[key]

\* C28: for distinct session ids, a /ask or /upload for one session works under its
\* own key and never changes the history stored for the other, and the messages a
\* /ask sends are the system turn and the history of its own session, which holds
\* the turns the requests of that session appended and no turn appended under the
\* other.
C28_SessionsIsolated ==
    [][ /\ \A i \in DOMAIN slots : \A sid \in IsolationIds :
              /\ \A q \in IsolationQueries : Ask(i, q, sid) => slots'[i].key = sid[1]
              /\ \A f \in IsolationFiles :
                    Upload(i, "session", f, sid) => slots'[i].key = sid[1]
        /\ \A key \in DOMAIN chatHistory' :
              HistoryChanged(key)
              => \E i \in DOMAIN slots : slots'[i] # slots[i] /\ ActingKey(i) = key
        /\ DOMAIN chatHistory \subseteq DOMAIN chatHistory'
        /\ NewAskSent
              => LET e == sent'[Len(sent')]
                     key == slots'[e.slot].key
                 IN /\ e.messages[1] = [role |-> "system",
                                         content |-> "You are a helpful AI assistant."]
                    /\ Tail(e.messages) = chatHistory'[key]
                    /\ \A k \in {"A", "B"} :
                          key = k => Len(e.messages) = 1 + Len(AppendedTurns(k))'
      ]_vars

C28_Witness ==
    /\ slots[1].pc = "await" /\ slots[1].kind = "ask" /\ slots[1].key = "A"
    /\ slots[2].pc = "await" /\ slots[2].kind = "ask" /\ slots[2].key = "B"
    /\ slots[1].query # slots[2].query
    /\ Len(responses) = 1 /\ responses[1].kind = "upload" /\ responses[1].status = 200
    /\ responses[1].key = "A"
    /\ chatHistory["A"] = <<FileTurnOf(responses[1]),
                            [role |-> "user", content |-> slots[1].query]>>
    /\ chatHistory["B"] = <<[role |-> "user", content |-> slots[2].query]>>
    /\ SentBy(2) = << [role |-> "system", content |-> "You are a helpful AI assistant."],
                      [role |-> "user", content |-> slots[2].query] >>

=============================================================================
